---- MODULE Spec2Model ----
(***************************************************************************)
(* Fixture difficulty analysis engine of FantasyPL                         *)
(* (src/src/agents/fixture_agent.py, store access of                       *)
(* src/src/agents/data_buff.py).                                           *)
(*                                                                         *)
(* Units.  The code computes in floating point and rounds to one or two    *)
(* decimals; the model computes the same quantities exactly, as integers   *)
(* in a fixed scale:                                                       *)
(*   form_score, favorability_score          tenths      (44.4 -> 444)     *)
(*   attack/defense strength, difficulties,                                *)
(*   form_multiplier                         hundredths  (1.5  -> 150)     *)
(*   congestion_score                        tenths      (0.8  -> 8)       *)
(*   team1_win_rate                          sixtieths   (0.5  -> 30)      *)
(*   kickoff_time                            hours since the season start  *)
(* round(x, n) is modelled as rounding of the exact value, half to even.   *)
(***************************************************************************)
EXTENDS Integers, Sequences, FiniteSets, TLC

\* SQL NULL / Python None in a nullable column or dict value.
NULL == -1
\* A dict value that is absent or not convertible by int(): fixture[k] or
\* int(fixture[k]) raises KeyError / TypeError / ValueError.
BAD == -2

----------------------------------------------------------------------------
\* Bounds of the model.

\* Number of fixtures of the season the fixtures API serves.
NumFixtures == 7
\* Largest number of rows whose INSERT fails during one fetch.
MaxStoreErrors == 1
\* Largest gameweeks_ahead argument tried.
MaxAhead == 1

----------------------------------------------------------------------------
\* Program constants.

\* CongestionAnalyzer.european_teams: ids 1..8.
european_teams == 1..8

\* Team ids of the model: one team of european_teams, two outside it.
TeamA == 1
TeamB == Cardinality(european_teams) + 1
TeamC == TeamB + 1
Teams == {TeamA, TeamB, TeamC}

\* The teams table is filled by the data agent, outside the engine.
TeamName(t) == IF t = TeamA THEN "Arsenal" ELSE IF t = TeamB THEN "Brentford" ELSE "Fulham"

\* FixtureAgent.current_season
current_season == "2024-25"

\* Default arguments.
GamesBackDefault == 6
SeasonsBackDefault == 3
LastGameweek == 38

GamesBackValues == {1, 3, GamesBackDefault}
SeasonsBackValues == {1, SeasonsBackDefault}

----------------------------------------------------------------------------
\* Arithmetic helpers.

Min(a, b) == IF a <= b THEN a ELSE b
Max(a, b) == IF a >= b THEN a ELSE b

\* round(n/d) for d > 0, ties to the even neighbour (Python 3 round()).
RoundDiv(n, d) ==
    LET q == n \div d
        r == n % d
    IN  IF 2 * r < d THEN q
        ELSE IF 2 * r > d THEN q + 1
        ELSE IF q % 2 = 0 THEN q ELSE q + 1

----------------------------------------------------------------------------
\* The season's fixture list as the fixtures API serves it.  Every fixture
\* involves TeamA, so that one team can exceed the six-game form window;
\* fixtures 1 and 2 carry the same kickoff time, fixture 6 has none
\* (postponed, kickoff unknown), fixture 7 has no away team id.

ApiOpponent(i) == IF i % 4 = 0 THEN TeamC ELSE IF i % 7 = 0 THEN NULL ELSE TeamB
ApiTeamH(i) == IF i % 2 = 1 THEN TeamA ELSE ApiOpponent(i)
ApiTeamA(i) == IF i % 2 = 1 THEN ApiOpponent(i) ELSE TeamA
ApiHomeScore(i) == <<2, 1, 0, 0, 2, 3>>[((i - 1) % 6) + 1]
ApiAwayScore(i) == <<0, 1, 3, 1, 2, 1>>[((i - 1) % 6) + 1]
ApiGameweek(i) == IF i <= 2 THEN 1 ELSE i - 1
\* Baseline ratings of the home and of the away side.
ApiHomeDifficulty(i) == <<1, 3, 4, 2, 1, 1, 1, 3>>[((i - 1) % 8) + 1]
ApiAwayDifficulty(i) == <<3, 5, 1, 4, 1, 1, 2, 2>>[((i - 1) % 8) + 1]
ApiKickoff(i) ==
    IF i % 6 = 0 THEN NULL
    ELSE IF i <= 4 THEN 72 * Max(1, i - 1)
    ELSE 288 + 168 * (i - 5)

FixtureIds == 1..NumFixtures

\* One element of the list returned by FixtureAPIWrapper.get_fixtures();
\* fin tells whether the match has been played when the list is fetched.
ApiFixture(i, fin) ==
    [id |-> i,
     gameweek |-> ApiGameweek(i),
     team_h |-> ApiTeamH(i),
     team_a |-> ApiTeamA(i),
     team_h_difficulty |-> ApiHomeDifficulty(i),
     team_a_difficulty |-> ApiAwayDifficulty(i),
     kickoff_time |-> ApiKickoff(i),
     finished |-> fin,
     team_h_score |-> IF fin THEN ApiHomeScore(i) ELSE NULL,
     team_a_score |-> IF fin THEN ApiAwayScore(i) ELSE NULL]

\* A fixture without kickoff time is given one when the match is
\* rearranged; from then on the API may serve it with that time.
ApiRearrangedKickoff(i) == 288 + 168 * (i - 5)

\* The element served for fixture i; dated: the rearranged time is served.
ApiServed(i, fin, dated) ==
    IF dated /\ ApiKickoff(i) = NULL
    THEN [ApiFixture(i, fin) EXCEPT !.kickoff_time = ApiRearrangedKickoff(i)]
    ELSE ApiFixture(i, fin)

----------------------------------------------------------------------------
\* State.
\*   fixtures          the fixtures table, keyed by id
\*   teams             the teams table, keyed by id (name per row)
\*   fixture_analysis  the fixture_analysis table, rows in insertion order
\*   fixture_runs      the fixture_runs table, rows in insertion order
\*   connection        DatabaseManager.connection is set
\*   call              the operation last invoked and its arguments
\*   result            what that operation returned, or that it raised
\*   store_failed      whether a store access failed during that operation
\*   frame             the local variables of an analyze_fixture_runs call in
\*                     progress, between two iterations of its loop over teams

VARIABLES fixtures, teams, fixture_analysis, fixture_runs, connection, call, result,
          store_failed, frame

vars == <<fixtures, teams, fixture_analysis, fixture_runs, connection, call, result,
          store_failed, frame>>

\* The four tables of the store.
tables == <<fixtures, teams, fixture_analysis, fixture_runs>>

Idle == [op |-> "idle", args |-> <<>>]
NoResult == [raised |-> FALSE, value |-> <<>>]
Raised == [raised |-> TRUE, value |-> <<>>]
Returned(v) == [raised |-> FALSE, value |-> v]
NoFrame == [active |-> FALSE]

Init ==
    /\ fixtures = <<>>
    /\ teams = [t \in Teams |-> [id |-> t, name |-> TeamName(t)]]
    /\ fixture_analysis = <<>>
    /\ fixture_runs = <<>>
    /\ connection = FALSE
    /\ call = Idle
    /\ result = NoResult
    /\ store_failed = FALSE
    /\ frame = NoFrame

\* DatabaseManager.execute_query / execute_insert open the connection on
\* first use; when the access fails the connection may or may not be set.
ConnectionAfter(ok) == IF ok THEN {TRUE} ELSE {connection, TRUE}

----------------------------------------------------------------------------
\* Query results.

Rows == {fixtures[i] : i \in DOMAIN fixtures}

\* ORDER BY kickoff_time DESC: PostgreSQL sorts NULL first in descending
\* order; rows with equal keys come in an order the store does not fix.
DescBefore(a, b) ==
    \/ a.kickoff_time = NULL
    \/ b.kickoff_time /= NULL /\ a.kickoff_time >= b.kickoff_time

RECURSIVE OrderingsDesc(_)
OrderingsDesc(S) ==
    IF S = {} THEN {<<>>}
    ELSE UNION { { <<r>> \o s : s \in OrderingsDesc(S \ {r}) } :
                 r \in {x \in S : \A y \in S : DescBefore(x, y)} }

\* LIMIT n
Limit(s, n) == SubSeq(s, 1, Min(n, Len(s)))

----------------------------------------------------------------------------
\* FixtureAgent.fetch_and_store_fixtures: one upsert per fetched fixture.
\* ON CONFLICT (id) updates gameweek, the scores and finished only.

Upsert(tbl, f) ==
    IF f.id \in DOMAIN tbl
    THEN [tbl EXCEPT ![f.id] = [@ EXCEPT !.gameweek = f.gameweek,
                                          !.team_h_score = f.team_h_score,
                                          !.team_a_score = f.team_a_score,
                                          !.finished = f.finished]]
    ELSE [i \in DOMAIN tbl \cup {f.id} |->
            IF i = f.id THEN f @@ [season |-> current_season] ELSE tbl[i]]

RECURSIVE StoreAll(_, _, _, _, _)
StoreAll(tbl, i, fin, failed, dated) ==
    IF i > NumFixtures THEN tbl
    ELSE StoreAll(IF i \in failed THEN tbl ELSE Upsert(tbl, ApiServed(i, i \in fin, dated)),
                  i + 1, fin, failed, dated)

\* A match that has been played stays played in what the API serves.
PlayedInStore == {i \in DOMAIN fixtures : fixtures[i].finished}

\* The fetch itself failed: get_fixtures re-raises, nothing is stored.
FetchFails ==
    /\ call = Idle
    /\ call' = [op |-> "fetch_and_store_fixtures", args |-> <<>>]
    /\ result' = Raised
    /\ store_failed' = FALSE
    /\ UNCHANGED <<tables, connection, frame>>

\* fin: the fixtures already played; dated: the rearranged kickoff times
\* are served; failed: the rows whose INSERT raised (logged, skipped).
\* The call record keeps what the API served.
FetchAndStoreFixtures ==
    /\ call = Idle
    /\ \E fin \in SUBSET FixtureIds, failed \in SUBSET FixtureIds, dated \in BOOLEAN :
         /\ PlayedInStore \subseteq fin
         /\ Cardinality(failed) <= MaxStoreErrors
         /\ fixtures' = StoreAll(fixtures, 1, fin, failed, dated)
         /\ connection' \in ConnectionAfter(failed /= FixtureIds)
         /\ store_failed' = (failed /= {})
         /\ call' = [op |-> "fetch_and_store_fixtures", args |-> <<fin, dated>>]
    /\ result' = Returned(<<>>)
    /\ UNCHANGED <<teams, fixture_analysis, fixture_runs, frame>>

\* The caller takes the result; the engine is ready for the next call.
Return ==
    /\ call /= Idle
    /\ ~frame.active
    /\ call' = Idle
    /\ result' = NoResult
    /\ store_failed' = FALSE
    /\ UNCHANGED <<tables, connection, frame>>

----------------------------------------------------------------------------
\* FormAnalyzer.calculate_team_form

\* WHERE (team_h = t OR team_a = t) AND finished AND both scores NOT NULL
FormRows(team_id) ==
    {r \in Rows : /\ (r.team_h = team_id \/ r.team_a = team_id)
                  /\ r.finished
                  /\ r.team_h_score /= NULL
                  /\ r.team_a_score /= NULL}

\* ... ORDER BY kickoff_time DESC LIMIT games_back
FormQuery(team_id, games_back) ==
    {Limit(s, games_back) : s \in OrderingsDesc(FormRows(team_id))}

NeutralForm ==
    [games_played |-> 0, wins |-> 0, draws |-> 0, losses |-> 0,
     goals_for |-> 0, goals_against |-> 0,
     form_score |-> 500, attack_strength |-> 100, defense_strength |-> 100]

ZeroTally == [wins |-> 0, draws |-> 0, losses |-> 0, goals_for |-> 0, goals_against |-> 0]

\* Mutant: the tally always reads the home side as the team's own.
RECURSIVE FormTally_home_only(_, _, _, _)
FormTally_home_only(results, team_id, i, acc) ==
    IF i > Len(results) THEN acc
    ELSE LET r == results[i]
         IN  IF r.team_h = NULL \/ r.team_a = NULL
             THEN FormTally_home_only(results, team_id, i + 1, acc)
             ELSE FormTally_home_only(results, team_id, i + 1,
                    [wins |-> acc.wins + (IF r.team_h_score > r.team_a_score THEN 1 ELSE 0),
                     draws |-> acc.draws + (IF r.team_h_score = r.team_a_score THEN 1 ELSE 0),
                     losses |-> acc.losses + (IF r.team_h_score < r.team_a_score THEN 1 ELSE 0),
                     goals_for |-> acc.goals_for + r.team_h_score,
                     goals_against |-> acc.goals_against + r.team_a_score])

\* The loop over the rows; int(None) raises TypeError and the row is skipped.
RECURSIVE FormTally(_, _, _, _)
FormTally(results, team_id, i, acc) ==
    IF i > Len(results) THEN acc
    ELSE LET r == results[i]
             is_home == r.team_h = team_id
             team_score == IF is_home THEN r.team_h_score ELSE r.team_a_score
             opp_score == IF is_home THEN r.team_a_score ELSE r.team_h_score
         IN  IF r.team_h = NULL \/ r.team_a = NULL
             THEN FormTally(results, team_id, i + 1, acc)
             ELSE FormTally(results, team_id, i + 1,
                    [wins |-> acc.wins + (IF team_score > opp_score THEN 1 ELSE 0),
                     draws |-> acc.draws + (IF team_score = opp_score THEN 1 ELSE 0),
                     losses |-> acc.losses + (IF team_score < opp_score THEN 1 ELSE 0),
                     goals_for |-> acc.goals_for + team_score,
                     goals_against |-> acc.goals_against + opp_score])

\* Mutant: the snapshot for no results carries form_score 0.
FormOfResults_zero_default(results, team_id) ==
    IF Len(results) = 0 THEN [NeutralForm EXCEPT !.form_score = 0]
    ELSE LET t == FormTally(results, team_id, 1, ZeroTally)
             games_played == Len(results)
         IN  [games_played |-> games_played,
              wins |-> t.wins, draws |-> t.draws, losses |-> t.losses,
              goals_for |-> t.goals_for, goals_against |-> t.goals_against,
              form_score |-> RoundDiv((t.wins * 3 + t.draws) * 1000, games_played * 3),
              attack_strength |-> RoundDiv(t.goals_for * 1000, games_played * 13),
              defense_strength |-> IF t.goals_against > 0
                                   THEN RoundDiv(130 * games_played, t.goals_against)
                                   ELSE 100]

\* Mutant: attack_strength falls back to 1.0 when no goal was scored.
FormOfResults_attack_default(results, team_id) ==
    IF Len(results) = 0 THEN NeutralForm
    ELSE LET t == FormTally(results, team_id, 1, ZeroTally)
             games_played == Len(results)
         IN  [games_played |-> games_played,
              wins |-> t.wins, draws |-> t.draws, losses |-> t.losses,
              goals_for |-> t.goals_for, goals_against |-> t.goals_against,
              form_score |-> RoundDiv((t.wins * 3 + t.draws) * 1000, games_played * 3),
              attack_strength |-> IF t.goals_for > 0
                                  THEN RoundDiv(t.goals_for * 1000, games_played * 13)
                                  ELSE 100,
              defense_strength |-> IF t.goals_against > 0
                                   THEN RoundDiv(130 * games_played, t.goals_against)
                                   ELSE 100]

FormOfResults(results, team_id) ==
    IF Len(results) = 0 THEN NeutralForm
    ELSE LET t == FormTally(results, team_id, 1, ZeroTally)
             games_played == Len(results)
             points == t.wins * 3 + t.draws
         IN  [games_played |-> games_played,
              wins |-> t.wins, draws |-> t.draws, losses |-> t.losses,
              goals_for |-> t.goals_for, goals_against |-> t.goals_against,
              form_score |-> RoundDiv(points * 1000, games_played * 3),
              attack_strength |-> RoundDiv(t.goals_for * 1000, games_played * 13),
              defense_strength |-> IF t.goals_against > 0
                                   THEN RoundDiv(130 * games_played, t.goals_against)
                                   ELSE 100]

\* The snapshots calculate_team_form can return on the current store.
TeamForms(team_id, games_back) ==
    {FormOfResults(s, team_id) : s \in FormQuery(team_id, games_back)}

calculate_team_form ==
    /\ call = Idle
    /\ \E team_id \in Teams, games_back \in GamesBackValues :
         /\ call' = [op |-> "calculate_team_form", args |-> <<team_id, games_back>>]
         /\ \/ /\ \E f \in TeamForms(team_id, games_back) : result' = Returned(f)
               /\ connection' = TRUE
               /\ store_failed' = FALSE
            \/ /\ result' = Raised
               /\ connection' \in ConnectionAfter(FALSE)
               /\ store_failed' = TRUE
    /\ UNCHANGED <<tables, frame>>

----------------------------------------------------------------------------
\* FormAnalyzer.get_head_to_head_record

H2HRows(team1_id, team2_id) ==
    {r \in Rows : /\ \/ r.team_h = team1_id /\ r.team_a = team2_id
                     \/ r.team_h = team2_id /\ r.team_a = team1_id
                  /\ r.finished
                  /\ r.team_h_score /= NULL
                  /\ r.team_a_score /= NULL}

H2HQuery(team1_id, team2_id, seasons_back) ==
    {Limit(s, seasons_back * 2) : s \in OrderingsDesc(H2HRows(team1_id, team2_id))}

ZeroH2H == [total_games |-> 0, team1_wins |-> 0, team1_draws |-> 0, team1_losses |-> 0]

\* Mutant: the record always reads the home side as team1.
RECURSIVE H2HTally_home_only(_, _, _, _)
H2HTally_home_only(results, team1_id, i, acc) ==
    IF i > Len(results) THEN acc
    ELSE LET r == results[i]
         IN  H2HTally_home_only(results, team1_id, i + 1,
                [total_games |-> acc.total_games + 1,
                 team1_wins |-> acc.team1_wins + (IF r.team_h_score > r.team_a_score THEN 1 ELSE 0),
                 team1_draws |-> acc.team1_draws + (IF r.team_h_score = r.team_a_score THEN 1 ELSE 0),
                 team1_losses |-> acc.team1_losses + (IF r.team_h_score < r.team_a_score THEN 1 ELSE 0)])

RECURSIVE H2HTally(_, _, _, _)
H2HTally(results, team1_id, i, acc) ==
    IF i > Len(results) THEN acc
    ELSE LET r == results[i]
             team1_is_home == r.team_h = team1_id
             team1_score == IF team1_is_home THEN r.team_h_score ELSE r.team_a_score
             team2_score == IF team1_is_home THEN r.team_a_score ELSE r.team_h_score
         IN  IF r.team_h = NULL \/ r.team_a = NULL
             THEN H2HTally(results, team1_id, i + 1, acc)
             ELSE H2HTally(results, team1_id, i + 1,
                    [total_games |-> acc.total_games + 1,
                     team1_wins |-> acc.team1_wins + (IF team1_score > team2_score THEN 1 ELSE 0),
                     team1_draws |-> acc.team1_draws + (IF team1_score = team2_score THEN 1 ELSE 0),
                     team1_losses |-> acc.team1_losses + (IF team1_score < team2_score THEN 1 ELSE 0)])

\* team1_win_rate in sixtieths: team1_wins / total_games, or 0.5.
H2HOfResults(results, team1_id) ==
    LET t == H2HTally(results, team1_id, 1, ZeroH2H)
    IN  [total_games |-> t.total_games,
         team1_wins |-> t.team1_wins,
         team1_draws |-> t.team1_draws,
         team1_losses |-> t.team1_losses,
         team1_win_rate |-> IF t.total_games > 0
                            THEN (t.team1_wins * 60) \div t.total_games
                            ELSE 30]

HeadToHeads(team1_id, team2_id, seasons_back) ==
    {H2HOfResults(s, team1_id) : s \in H2HQuery(team1_id, team2_id, seasons_back)}

get_head_to_head_record ==
    /\ call = Idle
    /\ \E team1_id \in Teams, team2_id \in Teams, seasons_back \in SeasonsBackValues :
         /\ team1_id /= team2_id
         /\ call' = [op |-> "get_head_to_head_record",
                     args |-> <<team1_id, team2_id, seasons_back>>]
         /\ \/ /\ \E h \in HeadToHeads(team1_id, team2_id, seasons_back) :
                    result' = Returned(h)
               /\ connection' = TRUE
               /\ store_failed' = FALSE
            \/ /\ result' = Raised
               /\ connection' \in ConnectionAfter(FALSE)
               /\ store_failed' = TRUE
    /\ UNCHANGED <<tables, frame>>

----------------------------------------------------------------------------
\* CongestionAnalyzer.calculate_fixture_congestion

CongestionRows(team_id, gameweek) ==
    {r \in Rows : /\ (r.team_h = team_id \/ r.team_a = team_id)
                  /\ r.gameweek >= Max(1, gameweek - 2)
                  /\ r.gameweek <= Min(LastGameweek, gameweek + 2)}

\* fixture_dates after fixture_dates.sort(): the kickoff times that are set.
RECURSIVE SortedKickoffs(_)
SortedKickoffs(S) ==
    IF S = {} THEN <<>>
    ELSE LET m == CHOOSE r \in S : \A q \in S : r.kickoff_time <= q.kickoff_time
         IN  <<m.kickoff_time>> \o SortedKickoffs(S \ {m})

\* timedelta.days of consecutive dates
DaysBetween(dates) ==
    [i \in 1..(Len(dates) - 1) |-> (dates[i + 1] - dates[i]) \div 24]

RECURSIVE SumSeq(_)
SumSeq(s) == IF Len(s) = 0 THEN 0 ELSE s[1] + SumSeq(Tail(s))

\* avg_days_between < n, with avg = mean(days_between) or 7 when empty
AvgBelow(days_between, n) ==
    IF Len(days_between) = 0 THEN 7 < n
    ELSE SumSeq(days_between) < n * Len(days_between)

\* Mutant: the high level asks for an average gap below three days.
CongestionLevel_high_below3(fixture_count, days_between) ==
    IF fixture_count >= 4 /\ AvgBelow(days_between, 3) THEN "high"
    ELSE IF fixture_count >= 3 /\ AvgBelow(days_between, 5) THEN "medium"
    ELSE IF fixture_count >= 2 /\ AvgBelow(days_between, 3) THEN "medium"
    ELSE "low"

CongestionLevel(fixture_count, days_between) ==
    IF fixture_count >= 4 /\ AvgBelow(days_between, 4) THEN "high"
    ELSE IF fixture_count >= 3 /\ AvgBelow(days_between, 5) THEN "medium"
    ELSE IF fixture_count >= 2 /\ AvgBelow(days_between, 3) THEN "medium"
    ELSE "low"

\* Mutant: the last branch scores 0.7.
CongestionBaseScore_low_heavy(fixture_count, days_between) ==
    IF fixture_count >= 4 /\ AvgBelow(days_between, 4) THEN 8
    ELSE IF fixture_count >= 3 /\ AvgBelow(days_between, 5) THEN 6
    ELSE IF fixture_count >= 2 /\ AvgBelow(days_between, 3) THEN 5
    ELSE 7

\* the base score of the branch taken, in tenths
CongestionBaseScore(fixture_count, days_between) ==
    IF fixture_count >= 4 /\ AvgBelow(days_between, 4) THEN 8
    ELSE IF fixture_count >= 3 /\ AvgBelow(days_between, 5) THEN 6
    ELSE IF fixture_count >= 2 /\ AvgBelow(days_between, 3) THEN 5
    ELSE 2

\* Mutant: the continental bonus is added before the empty window returns.
CongestionProfile_bonus_on_none(found, team_id) ==
    LET dates == SortedKickoffs({r \in found : r.kickoff_time /= NULL})
        days_between == DaysBetween(dates)
        fixture_count == Cardinality(found)
        base == IF found = {} THEN 0 ELSE CongestionBaseScore(fixture_count, days_between)
        congestion_score == IF team_id \in european_teams THEN base + 2 ELSE base
    IN  IF found = {}
        THEN [fixture_count |-> 0,
              congestion_level |-> "none",
              congestion_score |-> congestion_score,
              days_between_fixtures |-> <<>>,
              has_european_football |-> team_id \in european_teams]
        ELSE [fixture_count |-> fixture_count,
              congestion_level |-> CongestionLevel(fixture_count, days_between),
              congestion_score |-> Min(congestion_score, 10),
              days_between_fixtures |-> days_between,
              avg_days_between |-> IF Len(days_between) = 0 THEN 70
                                   ELSE RoundDiv(10 * SumSeq(days_between), Len(days_between)),
              has_european_football |-> team_id \in european_teams]

\* Mutant: fixture_count is taken over the rows with a kickoff time.
CongestionProfile_dated_count(found, team_id) ==
    LET dates == SortedKickoffs({r \in found : r.kickoff_time /= NULL})
        days_between == DaysBetween(dates)
        fixture_count == Len(dates)
        base == CongestionBaseScore(fixture_count, days_between)
        congestion_score == IF team_id \in european_teams THEN base + 2 ELSE base
    IN  IF found = {}
        THEN [fixture_count |-> 0,
              congestion_level |-> "none",
              congestion_score |-> 0,
              days_between_fixtures |-> <<>>,
              has_european_football |-> team_id \in european_teams]
        ELSE [fixture_count |-> fixture_count,
              congestion_level |-> CongestionLevel(fixture_count, days_between),
              congestion_score |-> Min(congestion_score, 10),
              days_between_fixtures |-> days_between,
              avg_days_between |-> IF Len(days_between) = 0 THEN 70
                                   ELSE RoundDiv(10 * SumSeq(days_between), Len(days_between)),
              has_european_football |-> team_id \in european_teams]

\* What the function makes of the rows its query found.
CongestionProfile(found, team_id) ==
    LET dates == SortedKickoffs({r \in found : r.kickoff_time /= NULL})
        days_between == DaysBetween(dates)
        fixture_count == Cardinality(found)
        base == CongestionBaseScore(fixture_count, days_between)
        congestion_score == IF team_id \in european_teams THEN base + 2 ELSE base
    IN  IF found = {}
        THEN [fixture_count |-> 0,
              congestion_level |-> "none",
              congestion_score |-> 0,
              days_between_fixtures |-> <<>>,
              has_european_football |-> team_id \in european_teams]
        ELSE [fixture_count |-> fixture_count,
              congestion_level |-> CongestionLevel(fixture_count, days_between),
              congestion_score |-> Min(congestion_score, 10),
              days_between_fixtures |-> days_between,
              avg_days_between |-> IF Len(days_between) = 0 THEN 70
                                   ELSE RoundDiv(10 * SumSeq(days_between), Len(days_between)),
              has_european_football |-> team_id \in european_teams]

CongestionOf(team_id, gameweek) ==
    CongestionProfile(CongestionRows(team_id, gameweek), team_id)

Gameweeks == {ApiGameweek(i) : i \in FixtureIds}

calculate_fixture_congestion ==
    /\ call = Idle
    /\ \E team_id \in Teams, gameweek \in Gameweeks :
         /\ call' = [op |-> "calculate_fixture_congestion", args |-> <<team_id, gameweek>>]
         /\ \/ /\ result' = Returned(CongestionOf(team_id, gameweek))
               /\ connection' = TRUE
               /\ store_failed' = FALSE
            \/ /\ result' = Raised
               /\ connection' \in ConnectionAfter(FALSE)
               /\ store_failed' = TRUE
    /\ UNCHANGED <<tables, frame>>

----------------------------------------------------------------------------
\* AdvancedDifficultyCalculator

Clamp(lo, x, hi) == Max(lo, Min(hi, x))

\* Mutant: 1.1 at home and 0.9 away.
calculate_form_multiplier_venue_swapped(team_form, opponent_form, is_home) ==
    Clamp(10000,
          (2000 + opponent_form.form_score - team_form.form_score)
              * (IF is_home THEN 11 ELSE 9),
          30000)

\* _calculate_form_multiplier, in units of 1/20000:
\* max(0.5, min(1.5, (1.0 + form_difference / 200) * (0.9 | 1.1)))
calculate_form_multiplier(team_form, opponent_form, is_home) ==
    LET form_difference == opponent_form.form_score - team_form.form_score
        base_multiplier == (2000 + form_difference) * (IF is_home THEN 9 ELSE 11)
    IN  Clamp(10000, base_multiplier, 30000)

\* Mutant: the favorability score without its final bound to 0..100.
calculate_favorability_score_unbounded(base_difficulty, team_form, opponent_form, h2h, congestion, is_home) ==
    (6 - base_difficulty) * 15 * 120
    + (team_form.form_score - opponent_form.form_score) * 3
    + (IF is_home THEN 10 * 120 ELSE 0)
    + (h2h.team1_win_rate - 30) * 40
    - congestion.congestion_score * 180

\* Mutant: the form difference weighs a half instead of a quarter.
calculate_favorability_score_form_halved(base_difficulty, team_form, opponent_form, h2h, congestion, is_home) ==
    Clamp(0, (6 - base_difficulty) * 15 * 120
             + (team_form.form_score - opponent_form.form_score) * 6
             + (IF is_home THEN 10 * 120 ELSE 0)
             + (h2h.team1_win_rate - 30) * 40
             - congestion.congestion_score * 180,
          100 * 120)

\* _calculate_favorability_score, in units of 1/120
calculate_favorability_score(base_difficulty, team_form, opponent_form, h2h, congestion, is_home) ==
    LET base_score == (6 - base_difficulty) * 15 * 120
        form_bonus == (team_form.form_score - opponent_form.form_score) * 3
        home_bonus == IF is_home THEN 10 * 120 ELSE 0
        h2h_bonus == (h2h.team1_win_rate - 30) * 40
        congestion_penalty == congestion.congestion_score * 180
    IN  Clamp(0, base_score + form_bonus + home_bonus + h2h_bonus - congestion_penalty,
              100 * 120)

\* _calculate_final_difficulty, in units of 1/60000
calculate_final_difficulty(base_difficulty, form_multiplier, congestion_score, h2h_win_rate) ==
    LET difficulty == base_difficulty * form_multiplier * 3
        congestion_impact == congestion_score * 12000
        h2h_adjustment == (30 - h2h_win_rate) * 2000
    IN  Clamp(60000, difficulty + congestion_impact + h2h_adjustment, 600000)

\* Mutant: the opponent's bonus granted without looking at its games.
calculate_confidence_opponent_unchecked(team_form, opponent_form, h2h, congestion) ==
    LET team_bonus == IF team_form.games_played >= 5 THEN 20
                      ELSE IF team_form.games_played >= 3 THEN 10 ELSE 0
        h2h_bonus == IF h2h.total_games >= 6 THEN 10
                     ELSE IF h2h.total_games >= 3 THEN 5 ELSE 0
        congestion_malus == IF congestion.congestion_level = "high" THEN 15
                            ELSE IF congestion.congestion_level = "medium" THEN 8 ELSE 0
    IN  Clamp(0, 50 + team_bonus + 15 + h2h_bonus - congestion_malus, 100)

\* Mutant: a medium congestion level costs 15 as a high one does.
calculate_confidence_medium_as_high(team_form, opponent_form, h2h, congestion) ==
    LET team_bonus == IF team_form.games_played >= 5 THEN 20
                      ELSE IF team_form.games_played >= 3 THEN 10 ELSE 0
        opponent_bonus == IF opponent_form.games_played >= 5 THEN 15
                          ELSE IF opponent_form.games_played >= 3 THEN 8 ELSE 0
        h2h_bonus == IF h2h.total_games >= 6 THEN 10
                     ELSE IF h2h.total_games >= 3 THEN 5 ELSE 0
        congestion_malus == IF congestion.congestion_level \in {"high", "medium"}
                            THEN 15 ELSE 0
    IN  Clamp(0, 50 + team_bonus + opponent_bonus + h2h_bonus - congestion_malus, 100)

\* _calculate_confidence
calculate_confidence(team_form, opponent_form, h2h, congestion) ==
    LET team_bonus == IF team_form.games_played >= 5 THEN 20
                      ELSE IF team_form.games_played >= 3 THEN 10 ELSE 0
        opponent_bonus == IF opponent_form.games_played >= 5 THEN 15
                          ELSE IF opponent_form.games_played >= 3 THEN 8 ELSE 0
        h2h_bonus == IF h2h.total_games >= 6 THEN 10
                     ELSE IF h2h.total_games >= 3 THEN 5 ELSE 0
        congestion_malus == IF congestion.congestion_level = "high" THEN 15
                            ELSE IF congestion.congestion_level = "medium" THEN 8 ELSE 0
    IN  Clamp(0, 50 + team_bonus + opponent_bonus + h2h_bonus - congestion_malus, 100)

\* int(x) raises for a value that is missing, None or not a number.
IntRaises(x) == x = BAD \/ x = NULL

\* The dict returned on the normal path, from the four lookups' results.
AdvancedResult(base_difficulty, is_home, team_form, opponent_form, h2h, congestion) ==
    LET form_multiplier == calculate_form_multiplier(team_form, opponent_form, is_home)
    IN  [base_difficulty |-> base_difficulty,
         advanced_difficulty |->
             RoundDiv(calculate_final_difficulty(base_difficulty, form_multiplier,
                          congestion.congestion_score, h2h.team1_win_rate), 600),
         form_adjusted_difficulty |-> RoundDiv(base_difficulty * form_multiplier, 200),
         favorability_score |->
             RoundDiv(calculate_favorability_score(base_difficulty, team_form,
                          opponent_form, h2h, congestion, is_home), 12),
         confidence |-> calculate_confidence(team_form, opponent_form, h2h, congestion),
         team_form |-> team_form,
         opponent_form |-> opponent_form,
         head_to_head |-> h2h,
         congestion |-> congestion,
         form_multiplier |-> RoundDiv(form_multiplier, 200)]

\* Mutant: the except branch scaling favorability by 15 as the normal path does.
DegradedResult_scaled15(base_difficulty) ==
    [base_difficulty |-> base_difficulty,
     advanced_difficulty |-> base_difficulty * 100,
     form_adjusted_difficulty |-> base_difficulty * 100,
     favorability_score |-> (6 - base_difficulty) * 15 * 10,
     confidence |-> 50,
     team_form |-> [form_score |-> 500],
     opponent_form |-> [form_score |-> 500],
     head_to_head |-> [team1_win_rate |-> 30],
     congestion |-> [congestion_score |-> 2],
     form_multiplier |-> 100]

\* The dict returned by the except branch.
DegradedResult(base_difficulty) ==
    [base_difficulty |-> base_difficulty,
     advanced_difficulty |-> base_difficulty * 100,
     form_adjusted_difficulty |-> base_difficulty * 100,
     favorability_score |-> (6 - base_difficulty) * 20 * 10,
     confidence |-> 50,
     team_form |-> [form_score |-> 500],
     opponent_form |-> [form_score |-> 500],
     head_to_head |-> [team1_win_rate |-> 30],
     congestion |-> [congestion_score |-> 2],
     form_multiplier |-> 100]

\* The statements of the try block before the first lookup raise.
PreambleRaises(fixture, team_id) ==
    \/ IntRaises(fixture.team_h)
    \/ fixture.team_h = team_id /\ IntRaises(fixture.team_a)
    \/ fixture.gameweek = BAD
    \/ IF fixture.team_h = team_id THEN IntRaises(fixture.team_h_difficulty)
                                   ELSE IntRaises(fixture.team_a_difficulty)

\* The except branch recomputes base_difficulty from the same fields.
HandlerRaises(fixture, team_id) ==
    \/ IntRaises(fixture.team_h)
    \/ IF fixture.team_h = team_id THEN IntRaises(fixture.team_h_difficulty)
                                   ELSE IntRaises(fixture.team_a_difficulty)

\* Outcomes of calculate_advanced_difficulty on the current store;
\* store_ok: every lookup's query succeeded.
AdvancedDifficulties(fixture, team_id, store_ok) ==
    LET is_home == fixture.team_h = team_id
        opponent_id == IF is_home THEN fixture.team_a ELSE fixture.team_h
        \* fixture.get('gameweek') or fixture.get('event', 1)
        gameweek == IF fixture.gameweek = NULL THEN 1 ELSE fixture.gameweek
        base_difficulty == IF is_home THEN fixture.team_h_difficulty
                                      ELSE fixture.team_a_difficulty
    IN  IF PreambleRaises(fixture, team_id) \/ ~store_ok
        THEN IF HandlerRaises(fixture, team_id)
             THEN {Raised}
             ELSE {Returned(DegradedResult(base_difficulty))}
        ELSE {Returned(AdvancedResult(base_difficulty, is_home, tf, of, h,
                                      CongestionOf(team_id, gameweek))) :
                tf \in TeamForms(team_id, GamesBackDefault),
                of \in TeamForms(opponent_id, GamesBackDefault),
                h \in HeadToHeads(team_id, opponent_id, SeasonsBackDefault)}

\* The fixture dicts handed to the calculator: every fixture of the season,
\* as served, and with one field missing or not a number.
FixtureFields == {"team_h", "team_a", "team_h_difficulty", "team_a_difficulty", "gameweek"}

FixtureDict(i) ==
    [f \in FixtureFields |-> ApiFixture(i, FALSE)[f]]

FixtureArgs ==
    {FixtureDict(i) : i \in FixtureIds}
    \cup {[FixtureDict(i) EXCEPT ![f] = BAD] : i \in FixtureIds, f \in FixtureFields}
    \cup {[FixtureDict(i) EXCEPT !.gameweek = NULL] : i \in FixtureIds}

calculate_advanced_difficulty ==
    /\ call = Idle
    /\ \E fixture \in FixtureArgs, team_id \in Teams, store_ok \in BOOLEAN :
         /\ team_id \in {fixture.team_h, fixture.team_a}
         /\ call' = [op |-> "calculate_advanced_difficulty", args |-> <<fixture, team_id>>]
         /\ result' \in AdvancedDifficulties(fixture, team_id, store_ok)
         /\ store_failed' = ~store_ok
         /\ connection' \in IF PreambleRaises(fixture, team_id) THEN {connection}
                            ELSE ConnectionAfter(store_ok)
    /\ UNCHANGED <<tables, frame>>

\* The caller repeats its last calculate_advanced_difficulty call at once.
RepeatAdvancedDifficulty ==
    /\ call.op = "calculate_advanced_difficulty"
    /\ \E store_ok \in BOOLEAN :
         /\ result' \in AdvancedDifficulties(call.args[1], call.args[2], store_ok)
         /\ store_failed' = ~store_ok
         /\ connection' \in IF PreambleRaises(call.args[1], call.args[2]) THEN {connection}
                            ELSE ConnectionAfter(store_ok)
    /\ UNCHANGED <<tables, call, frame>>

----------------------------------------------------------------------------
\* FixtureAgent: helpers of the aggregate operations.

AheadValues == 0..MaxAhead

\* analyze_fixture_runs(gameweeks_ahead = 6)
RunsAheadDefault == 6
RunsAheadValues == AheadValues \cup {RunsAheadDefault}

\* Mutant: MIN(gameweek) over all fixtures, finished or not.
CurrentGameweek_all_fixtures ==
    IF Rows = {} THEN 1
    ELSE CHOOSE g \in {r.gameweek : r \in Rows} : \A r \in Rows : g <= r.gameweek

\* _get_current_gameweek: MIN(gameweek) over the unfinished fixtures, or 1.
CurrentGameweek ==
    LET open == {r \in Rows : ~r.finished}
    IN  IF open = {} THEN 1
        ELSE CHOOSE g \in {r.gameweek : r \in open} : \A r \in open : g <= r.gameweek

\* _get_team_name: the name in the teams table, or "Team <id>".
NameOfTeam(team_id) ==
    IF team_id \in DOMAIN teams THEN teams[team_id].name ELSE "Team"

\* ORDER BY gameweek, kickoff_time: ascending, NULL kickoff last, rows with
\* equal keys in an order the store does not fix.
AscBefore(a, b) ==
    \/ a.gameweek < b.gameweek
    \/ /\ a.gameweek = b.gameweek
       /\ \/ b.kickoff_time = NULL
          \/ a.kickoff_time /= NULL /\ a.kickoff_time <= b.kickoff_time

RECURSIVE OrderingsAsc(_)
OrderingsAsc(S) ==
    IF S = {} THEN {<<>>}
    ELSE UNION { { <<r>> \o s : s \in OrderingsAsc(S \ {r}) } :
                 r \in {x \in S : \A y \in S : AscBefore(x, y)} }

\* WHERE gameweek BETWEEN current AND end AND finished = FALSE
UpcomingRows(current_gameweek, end_gameweek) ==
    {r \in Rows : /\ r.gameweek >= current_gameweek
                  /\ r.gameweek <= end_gameweek
                  /\ ~r.finished}

----------------------------------------------------------------------------
\* FixtureAgent.analyze_upcoming_fixtures

\* datetime.now(), the value parse_kickoff_time gives for a stored timestamp
Now == "now"

\* typed_fixture: int() of the id, the sides and the ratings
TypedFixtureRaises(r) ==
    \/ IntRaises(r.team_h) \/ IntRaises(r.team_a)
    \/ IntRaises(r.team_h_difficulty) \/ IntRaises(r.team_a_difficulty)

TypedFixture(r) ==
    [team_h |-> r.team_h, team_a |-> r.team_a,
     team_h_difficulty |-> r.team_h_difficulty,
     team_a_difficulty |-> r.team_a_difficulty,
     gameweek |-> r.gameweek]

FixtureAnalysisOf(r, team_id, analysis_data) ==
    LET is_home == r.team_h = team_id
        opponent_id == IF is_home THEN r.team_a ELSE r.team_h
    IN  [team_id |-> team_id,
         team_name |-> NameOfTeam(team_id),
         fixture_id |-> r.id,
         opponent_id |-> opponent_id,
         opponent_name |-> NameOfTeam(opponent_id),
         gameweek |-> r.gameweek,
         is_home |-> is_home,
         kickoff_time |-> Now,
         fpl_difficulty |-> IF is_home THEN r.team_h_difficulty ELSE r.team_a_difficulty,
         advanced_difficulty |-> analysis_data.advanced_difficulty,
         form_adjusted_difficulty |-> analysis_data.form_adjusted_difficulty,
         congestion_impact |-> analysis_data.congestion.congestion_score,
         favorability_score |-> analysis_data.favorability_score,
         confidence |-> analysis_data.confidence,
         analysis_factors |-> analysis_data]

\* One pass of the inner loop body, for one fixture and one of its sides.
\* fault: "none", "lookup" (a query of calculate_advanced_difficulty fails,
\* which degrades its result) or "name" (a _get_team_name query fails).
\* Any exception is logged and the pair is left out of the list.
AnalysesOfPair(r, team_id, fault) ==
    IF TypedFixtureRaises(r) \/ fault = "name" THEN {<<>>}
    ELSE LET outcomes == AdvancedDifficulties(TypedFixture(r), team_id, fault /= "lookup")
         IN  {IF o.raised THEN <<>> ELSE <<FixtureAnalysisOf(r, team_id, o.value)>> :
                o \in outcomes}

\* pairs: the (fixture, side) pairs in loop order; faults: the fault of each.
RECURSIVE AnalysesOfPairs(_, _)
AnalysesOfPairs(pairs, faults) ==
    IF Len(pairs) = 0 THEN {<<>>}
    ELSE {h \o t : h \in AnalysesOfPair(pairs[1][1], pairs[1][2], faults[1]),
                   t \in AnalysesOfPairs(Tail(pairs), Tail(faults))}

\* for fixture in fixtures: for team_id in [team_h, team_a]
PairsOf(ordered) ==
    [k \in 1..(2 * Len(ordered)) |->
        LET r == ordered[(k + 1) \div 2]
        IN  <<r, IF k % 2 = 1 THEN r.team_h ELSE r.team_a>>]

FaultPlans(n) ==
    {f \in [1..n -> {"none", "lookup", "name"}] :
        Cardinality({k \in 1..n : f[k] /= "none"}) <= MaxStoreErrors}

analyze_upcoming_fixtures ==
    /\ call = Idle
    /\ \E gameweeks_ahead \in AheadValues :
         /\ call' = [op |-> "analyze_upcoming_fixtures", args |-> <<gameweeks_ahead>>]
         /\ \/ \E ordered \in OrderingsAsc(UpcomingRows(CurrentGameweek,
                       Min(LastGameweek, CurrentGameweek + gameweeks_ahead))) :
                 \E faults \in FaultPlans(2 * Len(ordered)) :
                   /\ \E a \in AnalysesOfPairs(PairsOf(ordered), faults) :
                        result' = Returned(a)
                   /\ store_failed' = (\E k \in DOMAIN faults : faults[k] = "name")
                   /\ connection' = TRUE
            \/ /\ result' = Raised
               /\ store_failed' = TRUE
               /\ connection' \in ConnectionAfter(FALSE)
    /\ UNCHANGED <<tables, frame>>

----------------------------------------------------------------------------
\* FixtureAgent.analyze_fixture_runs

\* SELECT id, name FROM teams: the rows in an order the store does not fix.
RECURSIVE RowOrders(_)
RowOrders(S) ==
    IF S = {} THEN {<<>>}
    ELSE UNION { { <<x>> \o p : p \in RowOrders(S \ {x}) } : x \in S }

TeamRowOrders == RowOrders({teams[t] : t \in DOMAIN teams})

\* The team's unfinished fixtures of the window.
RunRows(team_id, current_gameweek, end_gameweek) ==
    {r \in UpcomingRows(current_gameweek, end_gameweek) :
        r.team_h = team_id \/ r.team_a = team_id}

\* Mutant: the rating of the home side, whichever side the team plays on.
DifficultyFor_home_rating(r, team_id) == r.team_h_difficulty

\* CASE WHEN team_h = team THEN team_h_difficulty ELSE team_a_difficulty
DifficultyFor(r, team_id) ==
    IF r.team_h = team_id THEN r.team_h_difficulty ELSE r.team_a_difficulty

\* sum(difficulties), for ratings 1..5
DifficultySum(S, team_id) ==
    SumSeq([d \in 1..5 |-> d * Cardinality({r \in S : DifficultyFor(r, team_id) = d})])

\* Mutant: EXCELLENT asks for four easy fixtures.
generate_fixture_recommendation_four_easy(total, count, easy_fixtures, hard_fixtures, congestion_level) ==
    IF total <= 2 * count /\ easy_fixtures >= 4
    THEN "EXCELLENT - Strong target for transfers"
    ELSE IF 2 * total <= 5 * count /\ easy_fixtures >= 2
    THEN "GOOD - Consider for transfers"
    ELSE IF total >= 4 * count \/ hard_fixtures >= 3
    THEN "AVOID - Difficult fixture run"
    ELSE IF congestion_level = "high"
    THEN "CAUTION - High fixture congestion"
    ELSE "NEUTRAL - Average fixture difficulty"

\* Mutant: GOOD is given up to an average of 3.0.
generate_fixture_recommendation_good_to3(total, count, easy_fixtures, hard_fixtures, congestion_level) ==
    IF total <= 2 * count /\ easy_fixtures >= 3
    THEN "EXCELLENT - Strong target for transfers"
    ELSE IF total <= 3 * count /\ easy_fixtures >= 2
    THEN "GOOD - Consider for transfers"
    ELSE IF total >= 4 * count \/ hard_fixtures >= 3
    THEN "AVOID - Difficult fixture run"
    ELSE IF congestion_level = "high"
    THEN "CAUTION - High fixture congestion"
    ELSE "NEUTRAL - Average fixture difficulty"

\* _generate_fixture_recommendation; avg_difficulty = total / count
generate_fixture_recommendation(total, count, easy_fixtures, hard_fixtures, congestion_level) ==
    IF total <= 2 * count /\ easy_fixtures >= 3
    THEN "EXCELLENT - Strong target for transfers"
    ELSE IF 2 * total <= 5 * count /\ easy_fixtures >= 2
    THEN "GOOD - Consider for transfers"
    ELSE IF total >= 4 * count \/ hard_fixtures >= 3
    THEN "AVOID - Difficult fixture run"
    ELSE IF congestion_level = "high"
    THEN "CAUTION - High fixture congestion"
    ELSE "NEUTRAL - Average fixture difficulty"

\* The FixtureRun built by one iteration, for a team with fixtures.
FixtureRunOf(team, current_gameweek, end_gameweek) ==
    LET found == RunRows(team.id, current_gameweek, end_gameweek)
        count == Cardinality(found)
        total == DifficultySum(found, team.id)
        easy_fixtures == Cardinality({r \in found : DifficultyFor(r, team.id) <= 2})
        hard_fixtures == Cardinality({r \in found : DifficultyFor(r, team.id) >= 4})
        home_fixtures == Cardinality({r \in found : r.team_h = team.id})
        congestion == CongestionOf(team.id, current_gameweek + 3)
    IN  [team_id |-> team.id,
         team_name |-> team.name,
         start_gameweek |-> current_gameweek,
         end_gameweek |-> end_gameweek,
         fixture_count |-> count,
         average_difficulty |-> RoundDiv(100 * total, count),
         easy_fixtures |-> easy_fixtures,
         hard_fixtures |-> hard_fixtures,
         home_fixtures |-> home_fixtures,
         away_fixtures |-> count - home_fixtures,
         congestion_level |-> congestion.congestion_level,
         recommendation |-> generate_fixture_recommendation(total, count, easy_fixtures,
                                hard_fixtures, congestion.congestion_level)]

\* list.sort(key=...): stable, ascending by average_difficulty.
RECURSIVE InsertByDifficulty(_, _)
InsertByDifficulty(sorted, x) ==
    IF Len(sorted) = 0 THEN <<x>>
    ELSE IF x.average_difficulty < sorted[1].average_difficulty THEN <<x>> \o sorted
    ELSE <<sorted[1]>> \o InsertByDifficulty(Tail(sorted), x)

\* Mutant: the runs stay in the order of the loop.
SortByDifficulty_loop_order(runs) == runs

RECURSIVE SortByDifficulty(_)
SortByDifficulty(runs) ==
    IF Len(runs) = 0 THEN <<>>
    ELSE InsertByDifficulty(SortByDifficulty(SubSeq(runs, 1, Len(runs) - 1)), runs[Len(runs)])

\* The loop over the teams as a whole, for one order of the teams rows.
RECURSIVE RunsOfTeams(_, _, _)
RunsOfTeams(order, current_gameweek, end_gameweek) ==
    IF Len(order) = 0 THEN <<>>
    ELSE (IF RunRows(order[1].id, current_gameweek, end_gameweek) = {} THEN <<>>
          ELSE <<FixtureRunOf(order[1], current_gameweek, end_gameweek)>>)
         \o RunsOfTeams(Tail(order), current_gameweek, end_gameweek)

\* What analyze_fixture_runs(gameweeks_ahead) can return on the current store.
FixtureRunLists(gameweeks_ahead) ==
    {SortByDifficulty(RunsOfTeams(order, CurrentGameweek,
                          Min(LastGameweek, CurrentGameweek + gameweeks_ahead))) :
        order \in TeamRowOrders}

\* The call up to its loop: the current gameweek and the teams are read.
RunsBegin ==
    /\ call = Idle
    /\ \E gameweeks_ahead \in RunsAheadValues :
         /\ call' = [op |-> "analyze_fixture_runs", args |-> <<gameweeks_ahead>>]
         /\ \/ /\ \E order \in TeamRowOrders :
                    frame' = [active |-> TRUE,
                              current_gameweek |-> CurrentGameweek,
                              end_gameweek |-> Min(LastGameweek, CurrentGameweek + gameweeks_ahead),
                              todo |-> order,
                              fixture_runs |-> <<>>]
               /\ result' = NoResult
               /\ store_failed' = FALSE
               /\ connection' = TRUE
            \/ /\ frame' = NoFrame
               /\ result' = Raised
               /\ store_failed' = TRUE
               /\ connection' \in ConnectionAfter(FALSE)
    /\ UNCHANGED tables

\* Mutant: each iteration also inserts its run into the fixture_runs table.
RunsIterate_persisting ==
    /\ frame.active
    /\ Len(frame.todo) > 0
    /\ frame' = [frame EXCEPT
           !.todo = Tail(@),
           !.fixture_runs =
               IF RunRows(frame.todo[1].id, frame.current_gameweek, frame.end_gameweek) = {}
               THEN @
               ELSE Append(@, FixtureRunOf(frame.todo[1], frame.current_gameweek,
                                           frame.end_gameweek))]
    /\ fixture_runs' =
           IF RunRows(frame.todo[1].id, frame.current_gameweek, frame.end_gameweek) = {}
           THEN fixture_runs
           ELSE Append(fixture_runs, FixtureRunOf(frame.todo[1], frame.current_gameweek,
                                                  frame.end_gameweek))
    /\ UNCHANGED <<fixtures, teams, fixture_analysis, connection, call, result, store_failed>>

\* One iteration of the loop: the team's fixtures and congestion are read.
RunsIterate ==
    /\ frame.active
    /\ Len(frame.todo) > 0
    /\ \/ /\ frame' = [frame EXCEPT
                 !.todo = Tail(@),
                 !.fixture_runs =
                     IF RunRows(frame.todo[1].id, frame.current_gameweek, frame.end_gameweek) = {}
                     THEN @
                     ELSE Append(@, FixtureRunOf(frame.todo[1], frame.current_gameweek,
                                                 frame.end_gameweek))]
          /\ UNCHANGED <<result, store_failed>>
       \/ /\ frame' = NoFrame
          /\ result' = Raised
          /\ store_failed' = TRUE
    /\ UNCHANGED <<tables, connection, call>>

\* After the loop: the runs are sorted and returned.
RunsFinish ==
    /\ frame.active
    /\ Len(frame.todo) = 0
    /\ result' = Returned(SortByDifficulty(frame.fixture_runs))
    /\ frame' = NoFrame
    /\ UNCHANGED <<tables, connection, call, store_failed>>

\* A caller with a time budget gives the call up between two iterations.
RunsAbandon ==
    /\ frame.active
    /\ frame' = NoFrame
    /\ call' = Idle
    /\ result' = NoResult
    /\ store_failed' = FALSE
    /\ UNCHANGED <<tables, connection>>

----------------------------------------------------------------------------
\* FixtureAgent.get_best_fixture_teams

MinFixturesDefault == 2
MinFixturesValues == {1, MinFixturesDefault}
\* best_teams[:10]
BestTeamsCap == 10

\* _calculate_fixture_score, in hundredths
calculate_fixture_score(run) ==
    LET base_score == (600 - run.average_difficulty) * 20
        easy_bonus == run.easy_fixtures * 1000
        hard_penalty == run.hard_fixtures * 1500
        home_bonus == run.home_fixtures * 500
        congestion_penalty == IF run.congestion_level = "high" THEN 2500
                              ELSE IF run.congestion_level = "medium" THEN 1500 ELSE 0
    IN  Clamp(0, base_score + easy_bonus - hard_penalty + home_bonus - congestion_penalty,
              10000)

BestTeamEntry(run) ==
    [team_id |-> run.team_id,
     team_name |-> run.team_name,
     fixture_count |-> run.fixture_count,
     average_difficulty |-> run.average_difficulty,
     easy_fixtures |-> run.easy_fixtures,
     hard_fixtures |-> run.hard_fixtures,
     home_fixtures |-> run.home_fixtures,
     congestion_level |-> run.congestion_level,
     fixture_score |-> calculate_fixture_score(run),
     recommendation |-> run.recommendation]

\* list.sort(key=..., reverse=True): stable, descending by fixture_score.
RECURSIVE InsertByScore(_, _)
InsertByScore(sorted, x) ==
    IF Len(sorted) = 0 THEN <<x>>
    ELSE IF x.fixture_score > sorted[1].fixture_score THEN <<x>> \o sorted
    ELSE <<sorted[1]>> \o InsertByScore(Tail(sorted), x)

RECURSIVE SortByScore(_)
SortByScore(entries) ==
    IF Len(entries) = 0 THEN <<>>
    ELSE InsertByScore(SortByScore(SubSeq(entries, 1, Len(entries) - 1)), entries[Len(entries)])

\* EligibleEntries with the comparison made strict.
RECURSIVE EligibleEntries_strictly_more(_, _)
EligibleEntries_strictly_more(runs, min_fixtures) ==
    IF Len(runs) = 0 THEN <<>>
    ELSE (IF runs[1].fixture_count > min_fixtures THEN <<BestTeamEntry(runs[1])>> ELSE <<>>)
         \o EligibleEntries_strictly_more(Tail(runs), min_fixtures)

RECURSIVE EligibleEntries(_, _)
EligibleEntries(runs, min_fixtures) ==
    IF Len(runs) = 0 THEN <<>>
    ELSE (IF runs[1].fixture_count >= min_fixtures THEN <<BestTeamEntry(runs[1])>> ELSE <<>>)
         \o EligibleEntries(Tail(runs), min_fixtures)

BestTeamsOf(runs, min_fixtures) ==
    Limit(SortByScore(EligibleEntries(runs, min_fixtures)), BestTeamsCap)

get_best_fixture_teams ==
    /\ call = Idle
    /\ \E gameweeks_ahead \in RunsAheadValues, min_fixtures \in MinFixturesValues :
         /\ call' = [op |-> "get_best_fixture_teams",
                     args |-> <<gameweeks_ahead, min_fixtures>>]
         /\ \/ /\ \E runs \in FixtureRunLists(gameweeks_ahead) :
                    result' = Returned(BestTeamsOf(runs, min_fixtures))
               /\ store_failed' = FALSE
               /\ connection' = TRUE
            \/ /\ result' = Raised
               /\ store_failed' = TRUE
               /\ connection' \in ConnectionAfter(FALSE)
    /\ UNCHANGED <<tables, frame>>

----------------------------------------------------------------------------
\* FixtureAgent.get_transfer_timing_recommendations

\* analyze_fixture_runs(6)
TimingLookahead == 6
\* unique_recommendations[:15]
TimingCap == 15

RECURSIVE TimingCandidates(_, _)
TimingCandidates(runs, target_gameweek) ==
    IF Len(runs) = 0 THEN <<>>
    ELSE (IF runs[1].average_difficulty <= 250 /\ runs[1].easy_fixtures >= 2
          THEN << [team_name |-> runs[1].team_name,
                   recommended_transfer_gameweek |-> target_gameweek,
                   fixture_run_start |-> runs[1].start_gameweek,
                   average_difficulty |-> runs[1].average_difficulty,
                   easy_fixtures |-> runs[1].easy_fixtures] >>
          ELSE <<>>)
         \o TimingCandidates(Tail(runs), target_gameweek)

\* UniqueByTeamName without the seen_teams test.
UniqueByTeamName_keep_all(recs, seen_teams) == recs

\* Keep the first record of each team name.
RECURSIVE UniqueByTeamName(_, _)
UniqueByTeamName(recs, seen_teams) ==
    IF Len(recs) = 0 THEN <<>>
    ELSE IF recs[1].team_name \in seen_teams
    THEN UniqueByTeamName(Tail(recs), seen_teams)
    ELSE <<recs[1]>> \o UniqueByTeamName(Tail(recs), seen_teams \cup {recs[1].team_name})

\* list.sort(key=...): stable, ascending by recommended_transfer_gameweek.
RECURSIVE InsertByGameweek(_, _)
InsertByGameweek(sorted, x) ==
    IF Len(sorted) = 0 THEN <<x>>
    ELSE IF x.recommended_transfer_gameweek < sorted[1].recommended_transfer_gameweek
    THEN <<x>> \o sorted
    ELSE <<sorted[1]>> \o InsertByGameweek(Tail(sorted), x)

RECURSIVE SortByGameweek(_)
SortByGameweek(recs) ==
    IF Len(recs) = 0 THEN <<>>
    ELSE InsertByGameweek(SortByGameweek(SubSeq(recs, 1, Len(recs) - 1)), recs[Len(recs)])

\* Mutant: the candidate gameweeks are tried from the last to the first.
TimingOf_latest_first(runs1, runs2, runs3) ==
    LET recommendations ==
            TimingCandidates(runs3, CurrentGameweek + 3)
            \o TimingCandidates(runs2, CurrentGameweek + 2)
            \o TimingCandidates(runs1, CurrentGameweek + 1)
    IN  Limit(SortByGameweek(UniqueByTeamName(recommendations, {})), TimingCap)

\* runs1..runs3: what the three analyze_fixture_runs(6) calls returned.
TimingOf(runs1, runs2, runs3) ==
    LET recommendations ==
            TimingCandidates(runs1, CurrentGameweek + 1)
            \o TimingCandidates(runs2, CurrentGameweek + 2)
            \o TimingCandidates(runs3, CurrentGameweek + 3)
    IN  Limit(SortByGameweek(UniqueByTeamName(recommendations, {})), TimingCap)

get_transfer_timing_recommendations ==
    /\ call = Idle
    /\ call' = [op |-> "get_transfer_timing_recommendations", args |-> <<>>]
    /\ \/ /\ \E runs1 \in FixtureRunLists(TimingLookahead),
                runs2 \in FixtureRunLists(TimingLookahead),
                runs3 \in FixtureRunLists(TimingLookahead) :
                result' = Returned(TimingOf(runs1, runs2, runs3))
          /\ store_failed' = FALSE
          /\ connection' = TRUE
       \/ /\ result' = Raised
          /\ store_failed' = TRUE
          /\ connection' \in ConnectionAfter(FALSE)
    /\ UNCHANGED <<tables, frame>>

----------------------------------------------------------------------------
\* FixtureAgent.store_fixture_analysis

\* The season before current_season.
previous_season == "2023-24"

\* Rows an earlier update left in the fixture_analysis table: one of the
\* previous season and one of the current season.
EarlierAnalysisRow(season) ==
    [fixture_id |-> 1, team_id |-> TeamA, opponent_id |-> TeamB, gameweek |-> 1,
     is_home |-> TRUE, base_difficulty |-> 2, advanced_difficulty |-> 200,
     form_adjusted_difficulty |-> 200, favorability_score |-> 800, confidence |-> 50,
     congestion_level |-> "low", congestion_score |-> 2, season |-> season]

EarlierAnalysisRows ==
    <<EarlierAnalysisRow(previous_season), EarlierAnalysisRow(current_season)>>

\* DELETE FROM fixture_analysis WHERE season = current_season
OtherSeasons(tbl) == SelectSeq(tbl, LAMBDA row : row.season /= current_season)

\* Building params raises KeyError: the congestion dict of a degraded
\* result has no 'congestion_level'.
ParamsRaise(analysis) ==
    "congestion_level" \notin DOMAIN analysis.analysis_factors.congestion

\* The row one INSERT adds.
AnalysisRow(analysis) ==
    [fixture_id |-> analysis.fixture_id,
     team_id |-> analysis.team_id,
     opponent_id |-> analysis.opponent_id,
     gameweek |-> analysis.gameweek,
     is_home |-> analysis.is_home,
     base_difficulty |-> analysis.fpl_difficulty,
     advanced_difficulty |-> analysis.advanced_difficulty,
     form_adjusted_difficulty |-> analysis.form_adjusted_difficulty,
     favorability_score |-> analysis.favorability_score,
     confidence |-> analysis.confidence,
     congestion_level |-> analysis.analysis_factors.congestion.congestion_level,
     congestion_score |-> analysis.congestion_impact,
     season |-> current_season]

\* The loop over the analyses; failed: the positions whose INSERT raised.
\* An exception of either kind is logged and the analysis is left out.
AnalysisRowsOf(analyses, failed) ==
    LET RECURSIVE From(_)
        From(k) ==
            IF k > Len(analyses) THEN <<>>
            ELSE (IF k \in failed \/ ParamsRaise(analyses[k]) THEN <<>>
                  ELSE <<AnalysisRow(analyses[k])>>)
                 \o From(k + 1)
    IN  From(1)

\* daily_update hands the list analyze_upcoming_fixtures returned to
\* store_fixture_analysis.
store_fixture_analysis ==
    /\ call.op = "analyze_upcoming_fixtures"
    /\ ~result.raised
    /\ call' = [op |-> "store_fixture_analysis", args |-> <<result.value>>]
    /\ \/ /\ \E failed \in SUBSET DOMAIN result.value :
                /\ Cardinality(failed) <= MaxStoreErrors
                /\ fixture_analysis' =
                      OtherSeasons(fixture_analysis) \o AnalysisRowsOf(result.value, failed)
                /\ store_failed' = (failed /= {})
          /\ result' = Returned(<<>>)
          /\ connection' = TRUE
       \/ /\ result' = Raised
          /\ store_failed' = TRUE
          /\ connection' \in ConnectionAfter(FALSE)
          /\ UNCHANGED fixture_analysis
    /\ UNCHANGED <<fixtures, teams, fixture_runs, frame>>

----------------------------------------------------------------------------
\* The engine with its read-only operations.

Next ==
    \/ FetchFails
    \/ FetchAndStoreFixtures
    \/ Return
    \/ calculate_team_form
    \/ get_head_to_head_record
    \/ calculate_fixture_congestion
    \/ calculate_advanced_difficulty
    \/ RepeatAdvancedDifficulty
    \/ analyze_upcoming_fixtures
    \/ RunsBegin
    \/ RunsIterate
    \/ RunsFinish
    \/ RunsAbandon
    \/ get_best_fixture_teams
    \/ get_transfer_timing_recommendations

Spec == Init /\ [][Next]_vars

\* The daily update: fetch, analyse the upcoming fixtures, store the
\* analyses; the fixture_analysis table holds rows of earlier updates.
InitDaily ==
    /\ fixtures = <<>>
    /\ teams = [t \in Teams |-> [id |-> t, name |-> TeamName(t)]]
    /\ fixture_analysis = EarlierAnalysisRows
    /\ fixture_runs = <<>>
    /\ connection = FALSE
    /\ call = Idle
    /\ result = NoResult
    /\ store_failed = FALSE
    /\ frame = NoFrame

\* The caller takes the result of the fetch or of the analysis; the update
\* modelled ends when the analyses are stored.
DailyReturn ==
    /\ call.op /= "store_fixture_analysis"
    /\ Return

NextDaily ==
    \/ FetchAndStoreFixtures
    \/ analyze_upcoming_fixtures
    \/ store_fixture_analysis
    \/ DailyReturn

SpecDaily == InitDaily /\ [][NextDaily]_vars

----------------------------------------------------------------------------
\* Properties of calculate_advanced_difficulty.

IsAdvancedCall == call.op = "calculate_advanced_difficulty"
ArgFixture == call.args[1]
ArgTeam == call.args[2]

\* The fixture names both sides and carries 1..5 ratings for both.
ValidFixture(fixture) ==
    /\ fixture.team_h \in Teams
    /\ fixture.team_a \in Teams
    /\ fixture.team_h_difficulty \in 1..5
    /\ fixture.team_a_difficulty \in 1..5

SideRating(fixture, team_id) ==
    IF fixture.team_h = team_id THEN fixture.team_h_difficulty
                                ELSE fixture.team_a_difficulty

OtherSide(fixture, team_id) ==
    IF fixture.team_h = team_id THEN fixture.team_a ELSE fixture.team_h

FinishedRowsOf(team_id) ==
    {r \in Rows : (r.team_h = team_id \/ r.team_a = team_id) /\ r.finished}

\* C1: calculate_advanced_difficulty never raises to its caller, whatever
\* the fixture record and whatever lookup fails.
C1_NeverRaises == IsAdvancedCall => ~result.raised

\* C2: every result of calculate_advanced_difficulty, normal or degraded,
\* has 1.0 <= advanced_difficulty <= 10.0, 0 <= favorability_score <= 100,
\* 0 <= confidence <= 100 and 0.5 <= form_multiplier <= 1.5.
C2_OutputBounds ==
    (IsAdvancedCall /\ ~result.raised) =>
        /\ result.value.advanced_difficulty >= 100
        /\ result.value.advanced_difficulty <= 1000
        /\ result.value.favorability_score >= 0
        /\ result.value.favorability_score <= 1000
        /\ result.value.confidence >= 0
        /\ result.value.confidence <= 100
        /\ result.value.form_multiplier >= 50
        /\ result.value.form_multiplier <= 150

\* A normal-path result whose favorability reached the upper bound while the
\* form multiplier left its lower bound.
C2_Witness ==
    /\ IsAdvancedCall
    /\ ~result.raised
    /\ ~store_failed
    /\ "games_played" \in DOMAIN result.value.team_form
    /\ result.value.team_form.games_played > 0
    /\ result.value.favorability_score = 1000
    /\ result.value.form_multiplier > 50

\* C3 as stated: a fixture whose opponent has no finished fixture in the
\* store gives a result, and its confidence is at most 50.
C3_OpponentWithoutHistory ==
    /\ IsAdvancedCall
    /\ ValidFixture(ArgFixture)
    /\ FinishedRowsOf(OtherSide(ArgFixture, ArgTeam)) = {}

C3_ConfidenceAtMost50 ==
    C3_OpponentWithoutHistory => (~result.raised /\ result.value.confidence <= 50)

\* The analysed team's own share of the confidence: 20 for five or more
\* finished, scored fixtures, 10 for three or four.
OwnGamesBonus(team_id) ==
    IF Cardinality(FormRows(team_id)) >= 5 THEN 20
    ELSE IF Cardinality(FormRows(team_id)) >= 3 THEN 10 ELSE 0

\* C3 (amended): for a fixture with valid sides and ratings whose opponent
\* has no finished fixture in the store, the call returns a result whose
\* confidence is at most 50 plus the analysed team's own games bonus.
C3_ConfidenceAtMostOwnBonus ==
    C3_OpponentWithoutHistory =>
        /\ ~result.raised
        /\ result.value.confidence <= 50 + OwnGamesBonus(ArgTeam)

C3_Witness ==
    /\ C3_OpponentWithoutHistory
    /\ ~store_failed
    /\ ~result.raised
    /\ "games_played" \in DOMAIN result.value.team_form
    /\ result.value.team_form.games_played >= 3
    /\ result.value.confidence > 50

\* C4: when a lookup fails for a fixture with valid sides and ratings, the
\* result is the minimal one: both difficulties equal the base difficulty,
\* favorability is (6 - base) * 20, confidence 50, form multiplier 1.0, and
\* the placeholders carry form_score 50, win rate 0.5, congestion score 0.2.
C4_DegradedResult ==
    (IsAdvancedCall /\ store_failed /\ ValidFixture(ArgFixture)) =>
        /\ ~result.raised
        /\ result.value.base_difficulty = SideRating(ArgFixture, ArgTeam)
        /\ result.value.advanced_difficulty = 100 * SideRating(ArgFixture, ArgTeam)
        /\ result.value.form_adjusted_difficulty = 100 * SideRating(ArgFixture, ArgTeam)
        /\ result.value.favorability_score = 10 * (6 - SideRating(ArgFixture, ArgTeam)) * 20
        /\ result.value.confidence = 50
        /\ result.value.form_multiplier = 100
        /\ result.value.team_form = [form_score |-> 500]
        /\ result.value.opponent_form = [form_score |-> 500]
        /\ result.value.head_to_head = [team1_win_rate |-> 30]
        /\ result.value.congestion = [congestion_score |-> 2]

C4_Witness ==
    /\ IsAdvancedCall
    /\ store_failed
    /\ ValidFixture(ArgFixture)
    /\ FormRows(ArgTeam) /= {}
    /\ result.value.confidence = 50
    /\ result.value.favorability_score = 800

\* C5: two calls of calculate_advanced_difficulty with the same fixture,
\* the same team and the same store, no lookup failing, return the same
\* result.
C5_Deterministic ==
    [][(/\ IsAdvancedCall
        /\ call' = call
        /\ fixtures' = fixtures
        /\ ~store_failed
        /\ ~store_failed') => result' = result]_vars

----------------------------------------------------------------------------
\* Properties of calculate_team_form.

IsFormCall == call.op = "calculate_team_form"

\* C8: for a team without a finished, scored fixture calculate_team_form
\* returns the neutral snapshot: no games, no goals, form_score 50.0,
\* attack and defense strength 1.0.
C8_NeutralSnapshot ==
    (IsFormCall /\ ~store_failed /\ FormRows(call.args[1]) = {}) =>
        /\ ~result.raised
        /\ result.value = [games_played |-> 0, wins |-> 0, draws |-> 0, losses |-> 0,
                           goals_for |-> 0, goals_against |-> 0, form_score |-> 500,
                           attack_strength |-> 100, defense_strength |-> 100]

\* The team has fixtures in the store, one of them finished without scores
\* or none finished at all.
C8_Witness ==
    /\ IsFormCall
    /\ ~store_failed
    /\ ~result.raised
    /\ FormRows(call.args[1]) = {}
    /\ \E r \in Rows : r.team_h = call.args[1] \/ r.team_a = call.args[1]

\* Goals of a row from one team's side.
OwnGoals(r, team_id) == IF r.team_h = team_id THEN r.team_h_score ELSE r.team_a_score
OppGoals(r, team_id) == IF r.team_h = team_id THEN r.team_a_score ELSE r.team_h_score

\* Sum of g(r) over the rows of S, for goal counts below ten.
GoalSum(S, team_id, own) ==
    SumSeq([g \in 1..9 |->
              g * Cardinality({r \in S : (IF own THEN OwnGoals(r, team_id)
                                                 ELSE OppGoals(r, team_id)) = g})])

\* The selections "the n most recent rows of R" allows.
MostRecent(R, n) ==
    {S \in SUBSET R : /\ Cardinality(S) = Min(n, Cardinality(R))
                      /\ \A x \in S, y \in R \ S : DescBefore(x, y)}

----------------------------------------------------------------------------
\* Properties of get_head_to_head_record.

IsH2HCall == call.op = "get_head_to_head_record"

\* C10: the record counts at most seasons_back*2 finished fixtures between
\* the two teams, each from team1's side whatever the venue: wins + draws +
\* losses = total_games <= seasons_back*2, team1_win_rate = team1_wins /
\* total_games, or 0.5 without games, and the rate lies in [0,1].
C10_HeadToHead ==
    (IsH2HCall /\ ~result.raised) =>
        LET team1_id == call.args[1]
            v == result.value
        IN  /\ v.team1_wins + v.team1_draws + v.team1_losses = v.total_games
            /\ v.total_games <= call.args[3] * 2
            /\ \E S \in MostRecent(H2HRows(team1_id, call.args[2]), call.args[3] * 2) :
                 /\ v.total_games = Cardinality(S)
                 /\ v.team1_wins = Cardinality({r \in S : OwnGoals(r, team1_id) > OppGoals(r, team1_id)})
                 /\ v.team1_draws = Cardinality({r \in S : OwnGoals(r, team1_id) = OppGoals(r, team1_id)})
                 /\ v.team1_losses = Cardinality({r \in S : OwnGoals(r, team1_id) < OppGoals(r, team1_id)})
            /\ IF v.total_games = 0 THEN v.team1_win_rate = 30
               ELSE v.team1_win_rate * v.total_games = v.team1_wins * 60
            /\ v.team1_win_rate >= 0
            /\ v.team1_win_rate <= 60

\* More games between the two than the limit, team1 away in a game it won.
C10_Witness ==
    /\ IsH2HCall
    /\ ~result.raised
    /\ Cardinality(H2HRows(call.args[1], call.args[2])) > call.args[3] * 2
    /\ result.value.total_games = call.args[3] * 2
    /\ result.value.team1_wins = 1
    /\ result.value.team1_losses = 1
    /\ \E r \in H2HRows(call.args[1], call.args[2]) :
         r.team_a = call.args[1] /\ r.team_a_score > r.team_h_score

----------------------------------------------------------------------------
\* Properties of the engine as a whole.

AnalysisOps ==
    {"calculate_team_form", "get_head_to_head_record", "calculate_fixture_congestion",
     "calculate_advanced_difficulty", "analyze_upcoming_fixtures", "analyze_fixture_runs",
     "get_best_fixture_teams", "get_transfer_timing_recommendations"}

\* C6: no step of an analysis operation changes a table of the store, also
\* not a step of analyze_fixture_runs between two teams nor the step that
\* abandons it there: the store stays as it was before the call.  (The
\* connection handle belongs to the store accessor and is opened on first
\* use; the engine's own state is constant.)
C6_AnalysisReadsOnly ==
    [][(frame.active \/ call'.op \in AnalysisOps) => tables' = tables]_vars

\* analyze_fixture_runs stands between two team iterations, one run built,
\* over a store that holds fixtures.
C6_Witness ==
    /\ frame.active
    /\ Len(frame.fixture_runs) > 0
    /\ Len(frame.todo) > 0
    /\ fixtures /= <<>>
    /\ fixture_runs = <<>>

\* C7: apart from calculate_advanced_difficulty no operation swallows an
\* unexpected error: when a store access of the operation itself fails, the
\* operation raises to its caller.
C7_ErrorsPropagate ==
    (/\ call.op \in AnalysisOps \ {"calculate_advanced_difficulty"}
     /\ ~frame.active
     /\ store_failed) => result.raised

----------------------------------------------------------------------------
\* Properties of calculate_fixture_congestion.

IsCongestionCall == call.op = "calculate_fixture_congestion"

\* The average of the gaps, or 7 without gaps, compared with a threshold.
GapsAverageBelow(gaps, n) ==
    IF Len(gaps) = 0 THEN 7 < n ELSE SumSeq(gaps) < n * Len(gaps)

\* The rule the claim gives: 1 high, 2 medium (0.6), 3 medium (0.5), 4 low.
FirstMatchingRule(count, gaps) ==
    IF count >= 4 /\ GapsAverageBelow(gaps, 4) THEN 1
    ELSE IF count >= 3 /\ GapsAverageBelow(gaps, 5) THEN 2
    ELSE IF count >= 2 /\ GapsAverageBelow(gaps, 3) THEN 3
    ELSE 4

RuleLevel(rule) == <<"high", "medium", "medium", "low">>[rule]
RuleBaseScore(rule) == <<8, 6, 5, 2>>[rule]

\* C11: with a fixture in the window the level is that of the first rule
\* matching (fixture_count, average gap): count >= 4 and avg < 4 high 0.8,
\* count >= 3 and avg < 5 medium 0.6, count >= 2 and avg < 3 medium 0.5,
\* else low 0.2, the score being the base score for a team outside the
\* continental set; four fixtures with gaps averaging three days give such a
\* team level high and score 0.8.
C11_Classification ==
    (IsCongestionCall /\ ~result.raised /\ result.value.fixture_count >= 1) =>
        LET v == result.value
            rule == FirstMatchingRule(v.fixture_count, v.days_between_fixtures)
            outside == call.args[1] \notin european_teams
        IN  /\ v.congestion_level = RuleLevel(rule)
            /\ outside => v.congestion_score = RuleBaseScore(rule)
            /\ (/\ outside
                /\ v.fixture_count = 4
                /\ Len(v.days_between_fixtures) > 0
                /\ SumSeq(v.days_between_fixtures) = 3 * Len(v.days_between_fixtures))
               => (v.congestion_level = "high" /\ v.congestion_score = 8)

\* Four fixtures, gaps of 0, 3 and 6 days, a team outside the continental set.
C11_Witness ==
    /\ IsCongestionCall
    /\ ~result.raised
    /\ call.args[1] \notin european_teams
    /\ result.value.fixture_count = 4
    /\ Len(result.value.days_between_fixtures) = 3
    /\ SumSeq(result.value.days_between_fixtures) = 9
    /\ result.value.congestion_level = "high"
    /\ result.value.congestion_score = 8

\* C12: the congestion score lies in [0,1]; a team of the continental set
\* gets the base score of its level plus 0.2, capped at 1.0 (high gives
\* 1.0), a team outside gets the base score, and a team without a fixture
\* in the window gets level none and score 0 in or out of the set.
C12_ScoreRange ==
    (IsCongestionCall /\ ~result.raised) =>
        LET v == result.value
            inside == call.args[1] \in european_teams
            base == RuleBaseScore(FirstMatchingRule(v.fixture_count, v.days_between_fixtures))
        IN  /\ v.congestion_score >= 0
            /\ v.congestion_score <= 10
            /\ v.has_european_football = inside
            /\ IF v.fixture_count = 0
               THEN v.congestion_level = "none" /\ v.congestion_score = 0
               ELSE /\ v.congestion_level \in {"low", "medium", "high"}
                    /\ v.congestion_score = IF inside THEN Min(base + 2, 10) ELSE base
                    /\ (inside /\ v.congestion_level = "high") => v.congestion_score = 10

\* A team of the continental set at level high: 0.8 + 0.2.
C12_Witness ==
    /\ IsCongestionCall
    /\ ~result.raised
    /\ call.args[1] \in european_teams
    /\ result.value.congestion_level = "high"
    /\ result.value.congestion_score = 10

\* A team of the continental set without a fixture in the window.
C12_EmptyWindowReached ==
    /\ IsCongestionCall
    /\ ~result.raised
    /\ call.args[1] \in european_teams
    /\ result.value.fixture_count = 0

\* The team's fixtures in the store, whatever their gameweek.
TeamRows(team_id) == {r \in Rows : r.team_h = team_id \/ r.team_a = team_id}

\* avg_days_between of one profile is at most that of another: the mean of
\* the gaps, 7 without gaps, compared exactly.
AverageAtMost(v, w) ==
    LET vs == IF Len(v.days_between_fixtures) = 0 THEN 7 ELSE SumSeq(v.days_between_fixtures)
        vl == IF Len(v.days_between_fixtures) = 0 THEN 1 ELSE Len(v.days_between_fixtures)
        ws == IF Len(w.days_between_fixtures) = 0 THEN 7 ELSE SumSeq(w.days_between_fixtures)
        wl == IF Len(w.days_between_fixtures) = 0 THEN 1 ELSE Len(w.days_between_fixtures)
    IN  vs * wl <= ws * vl

\* C13: for the same team and the same fixture_count, the profile of the
\* fixture set with the smaller or equal average gap has the greater or
\* equal congestion score.  The returned profile is compared with the
\* profile of every other set of the team's fixtures of the same size.
C13_Monotone ==
    (IsCongestionCall /\ ~result.raised /\ result.value.fixture_count >= 1) =>
        \A F \in SUBSET TeamRows(call.args[1]) :
            Cardinality(F) = result.value.fixture_count =>
                LET v == result.value
                    w == CongestionProfile(F, call.args[1])
                IN  /\ AverageAtMost(v, w) => v.congestion_score >= w.congestion_score
                    /\ AverageAtMost(w, v) => w.congestion_score >= v.congestion_score

\* Another set of the team's fixtures of the same size has a strictly larger
\* average gap and a strictly smaller score than the returned profile.
C13_Witness ==
    /\ IsCongestionCall
    /\ ~result.raised
    /\ result.value.fixture_count >= 3
    /\ \E F \in SUBSET TeamRows(call.args[1]) :
         /\ Cardinality(F) = result.value.fixture_count
         /\ ~AverageAtMost(CongestionProfile(F, call.args[1]), result.value)
         /\ CongestionProfile(F, call.args[1]).congestion_score
                < result.value.congestion_score

----------------------------------------------------------------------------
\* Properties of the normal path of calculate_advanced_difficulty.

\* The call returned the result of the normal path: it carries the four
\* lookups' full results.
IsNormalResult ==
    /\ IsAdvancedCall
    /\ ~result.raised
    /\ "games_played" \in DOMAIN result.value.team_form

ArgIsHome == ArgFixture.team_h = ArgTeam

\* (6 - base)*15 + (form - opponent form)/4 + (10 at home)
\* + (win rate - 0.5)*20 - congestion score*15, in units of 1/120.
FavorabilityTerms(v, is_home) ==
    (6 - v.base_difficulty) * 15 * 120
    + (v.team_form.form_score - v.opponent_form.form_score) * 3
    + (IF is_home THEN 1200 ELSE 0)
    + (v.head_to_head.team1_win_rate - 30) * 40
    - v.congestion.congestion_score * 180

\* C14: on the normal path favorability_score is the clamp to [0,100] of
\* (6 - base_difficulty)*15 + (team form_score - opponent form_score)/4
\* + (10 if home) + (team1_win_rate - 0.5)*20 - congestion_score*15, given
\* to one decimal; base_difficulty 2, equal form, home, win rate 0.5 and
\* congestion score 0.2 give 67.
C14_Favorability ==
    IsNormalResult =>
        LET v == result.value
            x == FavorabilityTerms(v, ArgIsHome)
        IN  /\ v.favorability_score =
                   RoundDiv(IF x < 0 THEN 0 ELSE IF x > 12000 THEN 12000 ELSE x, 12)
            /\ (/\ v.base_difficulty = 2
                /\ v.team_form.form_score = v.opponent_form.form_score
                /\ ArgIsHome
                /\ v.head_to_head.team1_win_rate = 30
                /\ v.congestion.congestion_score = 2)
               => v.favorability_score = 670

\* The scenario of the claim.
C14_Witness ==
    /\ IsNormalResult
    /\ result.value.base_difficulty = 2
    /\ result.value.team_form.form_score = result.value.opponent_form.form_score
    /\ ArgIsHome
    /\ result.value.head_to_head.team1_win_rate = 30
    /\ result.value.congestion.congestion_score = 2
    /\ result.value.favorability_score = 670

\* Results of the normal path in which the form difference is not zero and
\* the sum is clamped at neither end.
C14_FormTermReached ==
    /\ IsNormalResult
    /\ result.value.team_form.form_score /= result.value.opponent_form.form_score
    /\ FavorabilityTerms(result.value, ArgIsHome) > 0
    /\ FavorabilityTerms(result.value, ArgIsHome) < 12000

\* clamp to [0.5,1.5] of (1.0 + (opponent form - team form)/200) times 0.9
\* at home, 1.1 away, in units of 1/20000.
MultiplierOf(v, is_home) ==
    LET m == (2000 + v.opponent_form.form_score - v.team_form.form_score)
                 * (IF is_home THEN 9 ELSE 11)
    IN  IF m < 10000 THEN 10000 ELSE IF m > 30000 THEN 30000 ELSE m

\* base*multiplier + congestion score*2 + (0.5 - win rate)*2, in 1/60000.
DifficultyTerms(v, is_home) ==
    v.base_difficulty * MultiplierOf(v, is_home) * 3
    + v.congestion.congestion_score * 12000
    + (30 - v.head_to_head.team1_win_rate) * 2000

C15_MultiplierClampReached ==
    IsNormalResult /\ result.value.form_multiplier = 150

C15_DifficultyClampReached ==
    IsNormalResult /\ DifficultyTerms(result.value, ArgIsHome) > 600000

\* 50, +20/+10 for the team's games, +15/+8 for the opponent's, +10/+5 for
\* the head-to-head games, -15/-8 for a high/medium congestion level.
ConfidenceTerms(v) ==
    50
    + (IF v.team_form.games_played >= 5 THEN 20
       ELSE IF v.team_form.games_played >= 3 THEN 10 ELSE 0)
    + (IF v.opponent_form.games_played >= 5 THEN 15
       ELSE IF v.opponent_form.games_played >= 3 THEN 8 ELSE 0)
    + (IF v.head_to_head.total_games >= 6 THEN 10
       ELSE IF v.head_to_head.total_games >= 3 THEN 5 ELSE 0)
    - (IF v.congestion.congestion_level = "high" THEN 15
       ELSE IF v.congestion.congestion_level = "medium" THEN 8 ELSE 0)

\* C16: on the normal path confidence is the clamp to [0,100] of 50, plus
\* 20 if the team's games_played >= 5 else plus 10 if >= 3, plus 15 if the
\* opponent's games_played >= 5 else plus 8 if >= 3, plus 10 if the
\* head-to-head total_games >= 6 else plus 5 if >= 3, minus 15 for a high
\* congestion level or minus 8 for a medium one.
C16_Confidence ==
    IsNormalResult =>
        LET c == ConfidenceTerms(result.value)
        IN  result.value.confidence = IF c < 0 THEN 0 ELSE IF c > 100 THEN 100 ELSE c

\* Team with five games, opponent with three or four, three head-to-head
\* games, medium congestion: 50 + 20 + 8 + 5 - 8.
C16_Witness ==
    /\ IsNormalResult
    /\ result.value.team_form.games_played >= 5
    /\ result.value.opponent_form.games_played \in {3, 4}
    /\ result.value.head_to_head.total_games >= 3
    /\ result.value.congestion.congestion_level = "medium"
    /\ result.value.confidence = 75

----------------------------------------------------------------------------
\* Properties of analyze_fixture_runs.

\* analyze_fixture_runs has returned its list of runs.
RunsReturned ==
    /\ call.op = "analyze_fixture_runs"
    /\ ~frame.active
    /\ ~result.raised

\* The rule of the claim over (avg_difficulty in hundredths, easy, hard, level).
RecommendationRule(avg, easy, hard, level) ==
    IF avg <= 200 /\ easy >= 3 THEN "EXCELLENT - Strong target for transfers"
    ELSE IF avg <= 250 /\ easy >= 2 THEN "GOOD - Consider for transfers"
    ELSE IF avg >= 400 \/ hard >= 3 THEN "AVOID - Difficult fixture run"
    ELSE IF level = "high" THEN "CAUTION - High fixture congestion"
    ELSE "NEUTRAL - Average fixture difficulty"

\* C17: the recommendation of a run is decided by the first matching rule
\* over (avg_difficulty, easy_fixtures, hard_fixtures, congestion_level):
\* avg <= 2.0 and easy >= 3 EXCELLENT, else avg <= 2.5 and easy >= 2 GOOD,
\* else avg >= 4.0 or hard >= 3 AVOID, else level high CAUTION, else
\* NEUTRAL; avg 1.8, easy 3, hard 0, level low is EXCELLENT.
C17_Recommendation ==
    RunsReturned =>
        \A k \in DOMAIN result.value :
            LET run == result.value[k]
            IN  /\ run.recommendation =
                       RecommendationRule(run.average_difficulty, run.easy_fixtures,
                                          run.hard_fixtures, run.congestion_level)
                /\ (/\ run.average_difficulty = 180
                    /\ run.easy_fixtures = 3
                    /\ run.hard_fixtures = 0
                    /\ run.congestion_level = "low")
                   => run.recommendation = "EXCELLENT - Strong target for transfers"

\* The scenario of the claim: five fixtures rated 3, 3, 1, 1, 1.
C17_Witness ==
    /\ RunsReturned
    /\ \E k \in DOMAIN result.value :
         /\ result.value[k].average_difficulty = 180
         /\ result.value[k].easy_fixtures = 3
         /\ result.value[k].hard_fixtures = 0
         /\ result.value[k].congestion_level = "low"
         /\ result.value[k].recommendation = "EXCELLENT - Strong target for transfers"

\* A run decided by the fourth rule.
C17_CautionReached ==
    /\ RunsReturned
    /\ \E k \in DOMAIN result.value :
         result.value[k].recommendation = "CAUTION - High fixture congestion"

\* The smallest gameweek with an unfinished fixture, or 1.
FirstOpenGameweek ==
    IF \A r \in Rows : r.finished THEN 1
    ELSE CHOOSE g \in 1..LastGameweek :
           /\ \E r \in Rows : ~r.finished /\ r.gameweek = g
           /\ \A r \in Rows : ~r.finished => r.gameweek >= g

\* The team's unfinished fixtures with gameweek in
\* [current gameweek, min(38, current gameweek + gameweeks_ahead)].
OpenFixturesOf(team_id, gameweeks_ahead) ==
    {r \in Rows : /\ ~r.finished
                  /\ r.team_h = team_id \/ r.team_a = team_id
                  /\ r.gameweek >= FirstOpenGameweek
                  /\ r.gameweek <= FirstOpenGameweek + gameweeks_ahead
                  /\ r.gameweek <= LastGameweek}

\* C18: analyze_fixture_runs(gameweeks_ahead) returns exactly one run for
\* each team of the teams table with an unfinished fixture in the window,
\* none for any other team, in non-decreasing order of average_difficulty.
C18_OneRunPerTeam ==
    RunsReturned =>
        LET runs == result.value
        IN  /\ \A t \in DOMAIN teams :
                 Cardinality({k \in DOMAIN runs : runs[k].team_id = t})
                     = IF OpenFixturesOf(t, call.args[1]) = {} THEN 0 ELSE 1
            /\ \A k \in DOMAIN runs : runs[k].team_id \in DOMAIN teams
            /\ \A k \in 1..(Len(runs) - 1) :
                 runs[k].average_difficulty <= runs[k + 1].average_difficulty

\* Two runs of different average difficulty, and a team of the store left
\* without a run.
C18_Witness ==
    /\ RunsReturned
    /\ Len(result.value) = 2
    /\ result.value[1].average_difficulty < result.value[2].average_difficulty
    /\ \E t \in DOMAIN teams :
         /\ OpenFixturesOf(t, call.args[1]) = {}
         /\ \E r \in Rows : r.team_h = t \/ r.team_a = t

----------------------------------------------------------------------------
\* Properties of get_best_fixture_teams.

\* get_best_fixture_teams has returned its list.
BestTeamsReturned ==
    /\ call.op = "get_best_fixture_teams"
    /\ ~result.raised

\* The score of the claim, in hundredths, over the fields of an entry or run.
ScoreTerms(x) ==
    LET penalty == IF x.congestion_level = "high" THEN 2500
                   ELSE IF x.congestion_level = "medium" THEN 1500 ELSE 0
        raw == (600 - x.average_difficulty) * 20 + x.easy_fixtures * 1000
               - x.hard_fixtures * 1500 + x.home_fixtures * 500 - penalty
    IN  IF raw < 0 THEN 0 ELSE IF raw > 10000 THEN 10000 ELSE raw

\* The entries are the highest-scoring runs of the list with at least
\* min_fixtures fixtures: one entry per such run up to the cap, and no such
\* run left out scores above an entry.
HighestScoringOf(entries, runs, min_fixtures) ==
    LET eligible == {k \in DOMAIN runs : runs[k].fixture_count >= min_fixtures}
        kept == {k \in eligible :
                    \E i \in DOMAIN entries : entries[i].team_id = runs[k].team_id}
    IN  /\ Len(entries) = Min(BestTeamsCap, Cardinality(eligible))
        /\ Cardinality(kept) = Len(entries)
        /\ \A i \in DOMAIN entries : \E k \in kept :
               /\ entries[i].team_id = runs[k].team_id
               /\ entries[i].fixture_count = runs[k].fixture_count
               /\ entries[i].average_difficulty = runs[k].average_difficulty
        /\ \A k \in eligible \ kept : \A i \in DOMAIN entries :
               ScoreTerms(runs[k]) <= entries[i].fixture_score

C19_PenaltyReached ==
    /\ BestTeamsReturned
    /\ \E i \in DOMAIN result.value :
         /\ result.value[i].congestion_level \in {"high", "medium"}
         /\ result.value[i].fixture_score > 0

----------------------------------------------------------------------------
\* Properties of get_transfer_timing_recommendations.

\* get_transfer_timing_recommendations has returned its list.
TimingReturned ==
    /\ call.op = "get_transfer_timing_recommendations"
    /\ ~result.raised

\* The team's run in a list of runs meets the thresholds of the claim.
QualifiesIn(runs, team_name) ==
    \E k \in DOMAIN runs :
        /\ runs[k].team_name = team_name
        /\ runs[k].average_difficulty <= 250
        /\ runs[k].easy_fixtures >= 2

----------------------------------------------------------------------------
\* Properties of calculate_team_form: malformed rows and strengths.

\* A result row whose team ids both convert with int().
WellFormedRow(r) == r.team_h /= NULL /\ r.team_a /= NULL

\* C21: a malformed result row does not make calculate_team_form fail and
\* is skipped: the snapshot returned equals the snapshot of the well-formed
\* rows of the query result alone, and wins + draws + losses = games_played.
C21_MalformedRowsSkipped ==
    (IsFormCall /\ ~store_failed) =>
        /\ ~result.raised
        /\ \E s \in FormQuery(call.args[1], call.args[2]) :
              result.value = FormOfResults(SelectSeq(s, WellFormedRow), call.args[1])
        /\ result.value.wins + result.value.draws + result.value.losses
              = result.value.games_played

\* A snapshot over a query result that holds a malformed row.
C21_MalformedRowReached ==
    /\ IsFormCall
    /\ ~store_failed
    /\ ~result.raised
    /\ \E r \in FormRows(call.args[1]) : ~WellFormedRow(r)
    /\ result.value.wins + result.value.draws + result.value.losses
          < result.value.games_played

\* The strengths of the claim over a snapshot v, in hundredths, rounded to
\* two decimals as the snapshot carries them.
StrengthsOf(v) ==
    [attack_strength |-> IF v.games_played > 0
                         THEN RoundDiv(v.goals_for * 1000, v.games_played * 13)
                         ELSE 100,
     defense_strength |-> IF v.goals_against > 0 /\ v.games_played > 0
                          THEN RoundDiv(130 * v.games_played, v.goals_against)
                          ELSE 100]

\* C22 as stated: form_score in [0,100], attack_strength and
\* defense_strength strictly positive, attack_strength = (goals_for /
\* games_played) / 1.3 and defense_strength = 1.3 / (goals_against /
\* games_played), 1.0 when goals_against = 0 or games_played = 0.
C22_StrengthsPositive ==
    (IsFormCall /\ ~result.raised) =>
        LET v == result.value
        IN  /\ v.form_score >= 0 /\ v.form_score <= 1000
            /\ v.attack_strength > 0
            /\ v.defense_strength > 0
            /\ v.attack_strength = StrengthsOf(v).attack_strength
            /\ v.defense_strength = StrengthsOf(v).defense_strength

\* C22, amended: form_score in [0,100], defense_strength strictly positive,
\* attack_strength non-negative and zero exactly when games were played
\* without a goal scored; both strengths follow the formulas of the claim.
C22_StrengthsNonNegative ==
    (IsFormCall /\ ~result.raised) =>
        LET v == result.value
        IN  /\ v.form_score >= 0 /\ v.form_score <= 1000
            /\ v.attack_strength >= 0
            /\ v.attack_strength = 0 <=> (v.games_played > 0 /\ v.goals_for = 0)
            /\ v.defense_strength > 0
            /\ v.attack_strength = StrengthsOf(v).attack_strength
            /\ v.defense_strength = StrengthsOf(v).defense_strength

\* A team that conceded and did not score in its window: attack_strength is
\* 0 and defense_strength comes from the formula.
C22_Witness ==
    /\ IsFormCall
    /\ ~result.raised
    /\ result.value.games_played > 0
    /\ result.value.goals_for = 0
    /\ result.value.goals_against > 0
    /\ result.value.attack_strength = 0
    /\ result.value.defense_strength /= 100
    /\ \A r \in FormRows(call.args[1]) : WellFormedRow(r)

\* A snapshot with both strengths away from the default.
C22_BothStrengthsReached ==
    /\ IsFormCall
    /\ ~result.raised
    /\ result.value.attack_strength \notin {0, 100}
    /\ result.value.defense_strength /= 100

----------------------------------------------------------------------------
\* Properties of get_head_to_head_record: symmetry.

\* The records v for (A,B) and w for (B,A) mirror each other.
Mirrored(v, w) ==
    /\ v.total_games = w.total_games
    /\ v.team1_draws = w.team1_draws
    /\ v.team1_wins = w.team1_losses
    /\ v.team1_losses = w.team1_wins
    /\ v.total_games > 0 =>
          (v.team1_win_rate + w.team1_win_rate = 60 <=> v.team1_draws = 0)

\* C23: on the same store and with the same seasons_back, the record for
\* (A,B) and any record for (B,A) have equal total_games and draws, the
\* wins of one are the losses of the other, and with games played the two
\* win rates sum to 1 exactly when there are no draws.
C23_Symmetric ==
    (IsH2HCall /\ ~result.raised) =>
        \A w \in HeadToHeads(call.args[2], call.args[1], call.args[3]) :
            Mirrored(result.value, w)

\* No two head-to-head rows of the pair of the call share a kickoff_time.
C23_NoKickoffTies ==
    \A r, q \in H2HRows(call.args[1], call.args[2]) :
        r.id /= q.id => r.kickoff_time /= q.kickoff_time

\* The symmetry holds wherever the LIMIT does not cut through a tie.
C23_SymmetricWithoutTies ==
    (IsH2HCall /\ ~result.raised /\ C23_NoKickoffTies) =>
        \A w \in HeadToHeads(call.args[2], call.args[1], call.args[3]) :
            Mirrored(result.value, w)

\* A record with a win, a draw and a loss of team1, without ties.
C23_MirrorReached ==
    /\ IsH2HCall
    /\ ~result.raised
    /\ C23_NoKickoffTies
    /\ result.value.team1_wins > 0
    /\ result.value.team1_losses > 0
    /\ result.value.team1_draws > 0

----------------------------------------------------------------------------
\* Properties of calculate_fixture_congestion: missing kickoff times.

\* The team's fixtures, finished or not, in the gameweek window of the call.
WindowRows(team_id, gameweek) ==
    {r \in TeamRows(team_id) :
        /\ r.gameweek >= (IF gameweek - 2 < 1 THEN 1 ELSE gameweek - 2)
        /\ r.gameweek <= (IF gameweek + 2 > 38 THEN 38 ELSE gameweek + 2)}

\* Those of them with a kickoff time.
DatedRows(team_id, gameweek) ==
    {r \in WindowRows(team_id, gameweek) : r.kickoff_time /= NULL}

\* C24: a fixture without kickoff time never makes
\* calculate_fixture_congestion fail; it counts toward fixture_count (taken
\* over the team's fixtures, finished or not, of gameweeks [max(1, gw-2),
\* min(38, gw+2)]) and contributes no day-gap: there is one gap per pair of
\* consecutive dated fixtures, and with fewer than two dated fixtures
\* days_between_fixtures is empty and avg_days_between is 7.
C24_MissingKickoff ==
    (IsCongestionCall /\ ~store_failed) =>
        LET W == WindowRows(call.args[1], call.args[2])
            D == DatedRows(call.args[1], call.args[2])
            v == result.value
        IN  /\ ~result.raised
            /\ v.fixture_count = Cardinality(W)
            /\ Len(v.days_between_fixtures)
                  = (IF Cardinality(D) = 0 THEN 0 ELSE Cardinality(D) - 1)
            /\ \A k \in DOMAIN v.days_between_fixtures : v.days_between_fixtures[k] >= 0
            /\ (D /= {}) =>
                  \E lo \in D, hi \in D :
                      /\ \A r \in D : lo.kickoff_time <= r.kickoff_time
                                      /\ r.kickoff_time <= hi.kickoff_time
                      /\ SumSeq(v.days_between_fixtures) * 24
                            <= hi.kickoff_time - lo.kickoff_time
                      /\ (\A r \in D : r.kickoff_time % 24 = 0) =>
                            SumSeq(v.days_between_fixtures) * 24
                               = hi.kickoff_time - lo.kickoff_time
            /\ (W /= {} /\ Cardinality(D) < 2) =>
                  /\ v.days_between_fixtures = <<>>
                  /\ v.avg_days_between = 70

\* A window with an undated fixture among dated ones: it is counted and
\* adds no gap.
C24_Witness ==
    /\ IsCongestionCall
    /\ ~store_failed
    /\ ~result.raised
    /\ Cardinality(DatedRows(call.args[1], call.args[2])) >= 2
    /\ WindowRows(call.args[1], call.args[2]) /= DatedRows(call.args[1], call.args[2])
    /\ result.value.fixture_count = Len(result.value.days_between_fixtures) + 2

\* A window whose only fixture has no kickoff time.
C24_NoDatedFixtureReached ==
    /\ IsCongestionCall
    /\ ~store_failed
    /\ ~result.raised
    /\ WindowRows(call.args[1], call.args[2]) /= {}
    /\ DatedRows(call.args[1], call.args[2]) = {}
    /\ result.value.avg_days_between = 70

----------------------------------------------------------------------------
\* Properties of analyze_fixture_runs: the figures of a run.

\* The baseline rating of the side the team plays on.
OwnRating(r, team_id) ==
    IF r.team_h = team_id THEN r.team_h_difficulty ELSE r.team_a_difficulty

\* Sum of the ratings 1..5 of the team over the fixtures of F.
RatingSum(F, team_id) ==
    SumSeq([d \in 1..5 |-> d * Cardinality({r \in F : OwnRating(r, team_id) = d})])

\* C25: every run returned by analyze_fixture_runs is computed from the
\* team's unfinished fixtures of the window with the rating of the team's
\* own side: average_difficulty is their mean (to two decimals),
\* easy_fixtures counts ratings <= 2, hard_fixtures ratings >= 4,
\* home_fixtures + away_fixtures = fixture_count >= 1, easy_fixtures +
\* hard_fixtures <= fixture_count, start_gameweek <= end_gameweek <= 38, and
\* congestion_level is that of calculate_fixture_congestion for the team at
\* current_gameweek + 3.
C25_RunFigures ==
    RunsReturned =>
        \A k \in DOMAIN result.value :
            LET run == result.value[k]
                F == OpenFixturesOf(run.team_id, call.args[1])
            IN  /\ run.fixture_count = Cardinality(F)
                /\ run.fixture_count >= 1
                /\ run.average_difficulty
                      = RoundDiv(100 * RatingSum(F, run.team_id), Cardinality(F))
                /\ run.easy_fixtures
                      = Cardinality({r \in F : OwnRating(r, run.team_id) <= 2})
                /\ run.hard_fixtures
                      = Cardinality({r \in F : OwnRating(r, run.team_id) >= 4})
                /\ run.home_fixtures = Cardinality({r \in F : r.team_h = run.team_id})
                /\ run.home_fixtures + run.away_fixtures = run.fixture_count
                /\ run.easy_fixtures + run.hard_fixtures <= run.fixture_count
                /\ run.start_gameweek = FirstOpenGameweek
                /\ run.start_gameweek <= run.end_gameweek
                /\ run.end_gameweek <= 38
                /\ run.congestion_level
                      = CongestionOf(run.team_id, FirstOpenGameweek + 3).congestion_level

\* A run over home and away fixtures with easy and hard ratings, whose
\* congestion at current_gameweek + 3 differs from the one at the current
\* gameweek.
C25_Witness ==
    /\ RunsReturned
    /\ \E k \in DOMAIN result.value :
         LET run == result.value[k]
         IN  /\ run.home_fixtures >= 1
             /\ run.away_fixtures >= 1
             /\ run.easy_fixtures >= 1
             /\ run.hard_fixtures >= 1
             /\ run.congestion_level
                   /= CongestionOf(run.team_id, FirstOpenGameweek).congestion_level

\* A run with a fixture that is neither easy nor hard.
C25_MiddlingReached ==
    /\ RunsReturned
    /\ \E k \in DOMAIN result.value :
         /\ result.value[k].easy_fixtures >= 1
         /\ result.value[k].easy_fixtures + result.value[k].hard_fixtures
               < result.value[k].fixture_count

----------------------------------------------------------------------------
\* Properties of get_transfer_timing_recommendations: the gameweek kept.

----------------------------------------------------------------------------
\* Properties of store_fixture_analysis.

\* store_fixture_analysis has returned and no store access of it failed.
AnalysesStored ==
    /\ call.op = "store_fixture_analysis"
    /\ ~result.raised
    /\ ~store_failed

\* The rows of the current season.
CurrentSeasonRows == SelectSeq(fixture_analysis, LAMBDA row : row.season = current_season)

\* The row belongs to the analysis.
RowOfAnalysis(row, analysis) ==
    /\ row.fixture_id = analysis.fixture_id
    /\ row.team_id = analysis.team_id
    /\ row.opponent_id = analysis.opponent_id
    /\ row.gameweek = analysis.gameweek
    /\ row.advanced_difficulty = analysis.advanced_difficulty
    /\ row.favorability_score = analysis.favorability_score
    /\ row.confidence = analysis.confidence

\* An analysis built from the fallback result of
\* calculate_advanced_difficulty.
IsDegradedAnalysis(analysis) ==
    DOMAIN analysis.analysis_factors.team_form = {"form_score"}

\* C27: after store_fixture_analysis(A) has returned with the store
\* available, the fixture_analysis rows of the current season are exactly
\* one row per element of A, whatever rows were there before and also for
\* elements built from a degraded result; the rows of other seasons are
\* unchanged.
C27_OneRowPerAnalysis ==
    AnalysesStored =>
        LET analyses == call.args[1]
        IN  /\ Len(CurrentSeasonRows) = Len(analyses)
            /\ \A k \in DOMAIN analyses :
                 k <= Len(CurrentSeasonRows) => RowOfAnalysis(CurrentSeasonRows[k], analyses[k])
            /\ SelectSeq(fixture_analysis, LAMBDA row : row.season /= current_season)
                  = <<EarlierAnalysisRow(previous_season)>>

\* The same for the lists without a degraded element.
C27_OneRowPerFullAnalysis ==
    (AnalysesStored /\ \A k \in DOMAIN call.args[1] : ~IsDegradedAnalysis(call.args[1][k])) =>
        LET analyses == call.args[1]
        IN  /\ Len(CurrentSeasonRows) = Len(analyses)
            /\ \A k \in DOMAIN analyses : RowOfAnalysis(CurrentSeasonRows[k], analyses[k])
            /\ SelectSeq(fixture_analysis, LAMBDA row : row.season /= current_season)
                  = <<EarlierAnalysisRow(previous_season)>>

\* Analyses stored over the rows of an earlier update.
C27_StoredReached ==
    /\ AnalysesStored
    /\ Len(call.args[1]) >= 2
    /\ Len(CurrentSeasonRows) = Len(call.args[1])

\* A list with a degraded element stored with the store available: the
\* element has no row.
C27_DegradedLeftOut ==
    /\ AnalysesStored
    /\ \E k \in DOMAIN call.args[1] : IsDegradedAnalysis(call.args[1][k])
    /\ Len(CurrentSeasonRows) < Len(call.args[1])

----------------------------------------------------------------------------
\* Properties of fetch_and_store_fixtures.

\* fetch_and_store_fixtures has completed and no INSERT of it failed.
FetchStored ==
    /\ call.op = "fetch_and_store_fixtures"
    /\ ~result.raised
    /\ ~store_failed

\* The element the API served for fixture i in the fetch of the call.
Fetched(i) == ApiServed(i, i \in call.args[1], call.args[2])

\* C28: after fetch_and_store_fixtures has completed without store error,
\* every fetched fixture is stored with gameweek, both difficulty ratings,
\* kickoff_time, finished flag and scores as fetched, also when a row with
\* its id existed before with other values; fetching the same data again
\* leaves the store as it is.
C28_StoredAsFetched ==
    FetchStored =>
        /\ \A i \in FixtureIds :
             /\ i \in DOMAIN fixtures
             /\ fixtures[i].gameweek = Fetched(i).gameweek
             /\ fixtures[i].team_h_difficulty = Fetched(i).team_h_difficulty
             /\ fixtures[i].team_a_difficulty = Fetched(i).team_a_difficulty
             /\ fixtures[i].kickoff_time = Fetched(i).kickoff_time
             /\ fixtures[i].finished = Fetched(i).finished
             /\ fixtures[i].team_h_score = Fetched(i).team_h_score
             /\ fixtures[i].team_a_score = Fetched(i).team_a_score
        /\ StoreAll(fixtures, 1, call.args[1], {}, call.args[2]) = fixtures

\* What does hold: gameweek, finished flag and scores are as fetched, and
\* fetching the same data again leaves the store as it is.
C28_ResultsAsFetched ==
    FetchStored =>
        /\ \A i \in FixtureIds :
             /\ i \in DOMAIN fixtures
             /\ fixtures[i].gameweek = Fetched(i).gameweek
             /\ fixtures[i].finished = Fetched(i).finished
             /\ fixtures[i].team_h_score = Fetched(i).team_h_score
             /\ fixtures[i].team_a_score = Fetched(i).team_a_score
        /\ StoreAll(fixtures, 1, call.args[1], {}, call.args[2]) = fixtures

\* A fetch that stores played and unplayed fixtures, kickoff times as served.
C28_RowsUpdatedReached ==
    /\ FetchStored
    /\ \E i \in FixtureIds : fixtures[i].finished
    /\ \E i \in FixtureIds : ~fixtures[i].finished
    /\ \A i \in FixtureIds : fixtures[i].kickoff_time = Fetched(i).kickoff_time

\* A fetch that served the rearranged kickoff time of a fixture stored
\* before without one: the row keeps no kickoff time.
C28_StaleKickoffReached ==
    /\ FetchStored
    /\ \E i \in FixtureIds :
         /\ fixtures[i].kickoff_time = NULL
         /\ Fetched(i).kickoff_time /= NULL

----------------------------------------------------------------------------
\* Properties of _get_current_gameweek.

\* A store update that only marks fixtures finished: no fixture is added,
\* un-finished or moved to another gameweek.
OnlyMarksFinished ==
    /\ fixtures' /= fixtures
    /\ DOMAIN fixtures' = DOMAIN fixtures
    /\ \A i \in DOMAIN fixtures :
         /\ fixtures'[i].gameweek = fixtures[i].gameweek
         /\ fixtures[i].finished => fixtures'[i].finished

\* C29: _get_current_gameweek is the smallest gameweek with an unfinished
\* fixture, or 1 when no fixture is unfinished; a store update that only
\* marks fixtures finished and leaves an unfinished fixture does not
\* decrease it.
C29_CurrentGameweek ==
    [][/\ CurrentGameweek' = FirstOpenGameweek'
       /\ (OnlyMarksFinished /\ \E i \in DOMAIN fixtures' : ~fixtures'[i].finished)
             => CurrentGameweek' >= CurrentGameweek]_vars

\* The store after a fetch that found fixtures played: the early gameweeks
\* are finished, a later one is still open.
C29_Witness ==
    /\ call.op = "fetch_and_store_fixtures"
    /\ ~result.raised
    /\ DOMAIN fixtures = FixtureIds
    /\ \E i \in FixtureIds : ~fixtures[i].finished
    /\ CurrentGameweek > 2
    /\ \A i \in FixtureIds : fixtures[i].gameweek < CurrentGameweek => fixtures[i].finished

\* No update that only marks fixtures finished moves the current gameweek
\* forward (refuted: such updates occur).
C29_NeverAdvances ==
    [][(OnlyMarksFinished /\ \E i \in DOMAIN fixtures' : ~fixtures'[i].finished)
          => CurrentGameweek' = CurrentGameweek]_vars

----------------------------------------------------------------------------
\* Properties of analyze_fixture_runs: hard fixtures and recommendations.

\* The run is recommended for transfers.
IsRecommended(run) ==
    run.recommendation \in {"EXCELLENT - Strong target for transfers",
                            "GOOD - Consider for transfers"}

\* C30: no run with hard_fixtures >= 3 returned by analyze_fixture_runs
\* carries an EXCELLENT or GOOD recommendation.
C30_HardRunsNotRecommended ==
    RunsReturned =>
        \A k \in DOMAIN result.value :
            result.value[k].hard_fixtures >= 3 => ~IsRecommended(result.value[k])

\* C30, amended: a run with hard_fixtures >= 3 is recommended for transfers
\* only when its average_difficulty is still <= 2.5 with at least two easy
\* fixtures, which takes at least as many easy as hard fixtures and so at
\* least six fixtures; with fewer than six fixtures it is never
\* recommended, and with fewer than nine it is never EXCELLENT.
C30_HardRunsNeedEasyOnes ==
    RunsReturned =>
        \A k \in DOMAIN result.value :
            LET run == result.value[k]
            IN  run.hard_fixtures >= 3 =>
                  /\ IsRecommended(run) =>
                        /\ run.average_difficulty <= 250
                        /\ run.easy_fixtures >= 2
                        /\ run.easy_fixtures >= run.hard_fixtures
                        /\ run.fixture_count >= 6
                  /\ run.fixture_count < 6 => ~IsRecommended(run)
                  /\ run.fixture_count < 9 =>
                        run.recommendation /= "EXCELLENT - Strong target for transfers"

\* A run of seven fixtures, three of them hard, recommended as GOOD.
C30_Witness ==
    /\ RunsReturned
    /\ \E k \in DOMAIN result.value :
         /\ result.value[k].hard_fixtures >= 3
         /\ result.value[k].recommendation = "GOOD - Consider for transfers"

\* A run of fewer than six fixtures, three of them hard, with two easy
\* ones: not recommended.
C30_ShortHardRunReached ==
    /\ RunsReturned
    /\ \E k \in DOMAIN result.value :
         /\ result.value[k].hard_fixtures >= 3
         /\ result.value[k].easy_fixtures >= 2
         /\ result.value[k].fixture_count < 6
         /\ ~IsRecommended(result.value[k])

====
